---- MODULE Spec2Model ----
(***************************************************************************)
(* Model of the DNR cross-section tools (Scripts3_3_1): the well-stick     *)
(* tool CreateLixpys_unloc.py, the raster-profile tool RasterProfiles.py   *)
(* and the two CWI extraction tools GetCWIdata.py / GetCWIdata_unloc.py.   *)
(*                                                                         *)
(* Each script is a straight-line batch program; a state is the position   *)
(* of the script (pc), its parameters, the input tables, the datasets that *)
(* exist in the output geodatabase and the messages emitted so far.        *)
(*                                                                         *)
(* Geometry is exact integer geometry: vertices and wells lie on an        *)
(* integer grid and every line segment is parallel to an axis, so that     *)
(* bearings, planar distances and measures are integers.  Quotients such   *)
(* as x_coord are kept as exact fractions <<numerator, denominator>>.      *)
(***************************************************************************)
EXTENDS Integers, Sequences, FiniteSets, TLC

VARIABLES
    tool,                   \* which script is running
    pc,                     \* position in the script
    buffer_dist,            \* parameter 8 of CreateLixpys / 2 of GetCWIdata
    vertical_exaggeration,  \* parameter 9 of CreateLixpys / 4 of RasterProfiles
    well_stick_width,       \* parameter 10 of CreateLixpys
    xsln_etid_field,        \* name of the section id field (RasterProfiles parameter 3)
    rasters_list,           \* RasterProfiles: names of the input rasters
    merge_boolean,          \* RasterProfiles parameter 5
    dem_raster,             \* GetCWIdata parameter 3
    strat_boolean,          \* GetCWIdata parameter 4
    dpl_boolean,            \* GetCWIdata parameter 5
    state_wwpt,             \* GetCWIdata: the statewide well points
    xsln_file_orig,         \* cross-section line feature class (rows)
    wwpt_file_orig,         \* well point feature class (rows)
    strat_table,            \* stratigraphy table (rows, OID = position)
    strat_wellid_type,      \* type of the well id field of the stratigraphy table
    wwpt_wellid_type,       \* type of the well id field of the well point file
    messages,               \* messages emitted so far, in order
    workspace,              \* names of the datasets present in the output gdb
    xsln_temp,              \* rows of the extended line feature class
    wwpt_by_xs,             \* et_id -> rows of wwpt_<et_id> (near analysis done)
    wwpt_merge,             \* rows of wwpt_unloc_merge
    polylinefile_3d,        \* rows of lixpys_unloc_3d
    polylinefile_2d,        \* rows of lixpys_unloc_2d_line
    polygon_file,           \* rows of lixpys_unloc_2d_poly
    nomatch_list,           \* section 17 nomatch_list
    profiles_2d,            \* RasterProfiles: collection name -> rows
    wwpt_joined,            \* GetCWIdata: rows of the wwpt / wwpt_unloc output
    cursor                  \* index of the row the running loop is at

\* Parameters and input tables: read, never written.
inputs == <<tool, buffer_dist, vertical_exaggeration, well_stick_width,
            xsln_etid_field, rasters_list, merge_boolean, dem_raster,
            strat_boolean, dpl_boolean, state_wwpt,
            xsln_file_orig, wwpt_file_orig, strat_table,
            strat_wellid_type, wwpt_wellid_type>>

\* Datasets the well-stick tool writes.
lixData == <<xsln_temp, wwpt_by_xs, wwpt_merge, polylinefile_3d,
             polylinefile_2d, polygon_file, nomatch_list>>

\* Datasets the other tools write.
otherData == <<profiles_2d, wwpt_joined>>

vars == <<inputs, lixData, otherData, pc, messages, workspace, cursor>>

-----------------------------------------------------------------------------
(* Bounds of the model *)

MaxStrat == 2
MaxWells == 2
\* Largest buffer distance, and how far off the lines a well may lie, in the
\* runs that vary the geometry.
MaxBuffer == 2
MaxReach == 3
\* Most stratigraphy records in the runs that vary the well ids.
MaxIds == 3
\* Most cross-section lines in the runs that vary the raster profiles.
MaxLines == 2

-----------------------------------------------------------------------------
(* Values *)

\* A nullable field holds <<>> (None) or <<v>>.
NULL == <<>>
Some(v) == <<v>>
Val(f) == f[1]

SeqsUpTo(S, n) == UNION {[1..k -> S] : k \in 0..n}

Abs(n) == IF n < 0 THEN -n ELSE n
Sgn(n) == IF n < 0 THEN -1 ELSE IF n > 0 THEN 1 ELSE 0
Min2(a, b) == IF a <= b THEN a ELSE b
Max2(a, b) == IF a >= b THEN a ELSE b
SetMin(S) == CHOOSE m \in S : \A n \in S : m <= n

\* Exact square root (all distances of the model are whole numbers).
ISqrt(n) == CHOOSE r \in 0..n : r * r = n

RECURSIVE Concat(_)
Concat(ss) == IF ss = <<>> THEN <<>> ELSE ss[1] \o Concat(Tail(ss))

\* All orderings of a finite set, as sequences.
Orderings(S) ==
    {f \in [1..Cardinality(S) -> S] : \A i, j \in 1..Cardinality(S) : i # j => f[i] # f[j]}

Msg(id, arg) == [id |-> id, arg |-> arg]

-----------------------------------------------------------------------------
(* Planar geometry of arcpy on axis-parallel segments *)

D2(p, q) == (p[1] - q[1]) * (p[1] - q[1]) + (p[2] - q[2]) * (p[2] - q[2])

\* Planar length of an axis-parallel segment.
SegLen(a, b) == Abs(b[1] - a[1]) + Abs(b[2] - a[2])

Clamp(v, a, b) == Max2(Min2(a, b), Min2(v, Max2(a, b)))

\* Point of segment a-b nearest to p.
NearestOnSeg(a, b, p) ==
    IF a[2] = b[2] THEN <<Clamp(p[1], a[1], b[1]), a[2]>>
                   ELSE <<a[1], Clamp(p[2], a[2], b[2])>>

\* Length of the line from its first vertex to vertex i.
RECURSIVE CumLen(_, _)
CumLen(verts, i) ==
    IF i <= 1 THEN 0 ELSE CumLen(verts, i - 1) + SegLen(verts[i - 1], verts[i])

LineLength(verts) == CumLen(verts, Len(verts))

Segs(verts) == 1..(Len(verts) - 1)

\* Squared distance from p to the polyline.
NearD2(verts, p) ==
    SetMin({D2(p, NearestOnSeg(verts[i], verts[i + 1], p)) : i \in Segs(verts)})

\* arcpy.analysis.Near with LOCATION: the points of the line at minimum
\* distance from p.  When several points of the line are equally near, the
\* tool documents no choice: every one of them is a possible NEAR_X/NEAR_Y.
NearLocations(verts, p) ==
    {NearestOnSeg(verts[i], verts[i + 1], p) : i \in
        {j \in Segs(verts) : D2(p, NearestOnSeg(verts[j], verts[j + 1], p)) = NearD2(verts, p)}}

\* arcpy.Polyline.measureOnLine: distance along the line from its first
\* vertex to the point of the line nearest to p (first occurrence).
measureOnLine(verts, p) ==
    SetMin({CumLen(verts, i) + SegLen(verts[i], NearestOnSeg(verts[i], verts[i + 1], p)) : i \in
        {j \in Segs(verts) : D2(p, NearestOnSeg(verts[j], verts[j + 1], p)) = NearD2(verts, p)}})

\* angleAndDistanceTo(..., "PLANAR")[0]: the bearing from a to b, kept as the
\* unit step of the axis-parallel direction.
angleTo(a, b) == <<Sgn(b[1] - a[1]), Sgn(b[2] - a[2])>>

pointFromAngleAndDistanceUnit(p, angle, dist) ==
    <<p[1] + angle[1], p[2] + angle[2]>>
pointFromAngleAndDistance(p, angle, dist) ==
    <<p[1] + angle[1] * dist, p[2] + angle[2] * dist>>

-----------------------------------------------------------------------------
(* Fractions: a quotient n/d of the scripts is kept exact as <<n, d>>. *)

Frac(n, d) == <<n, d>>
FracEq(a, b) == a[1] * b[2] = b[1] * a[2]

\* Greatest common divisor, and a fraction in lowest terms with a positive
\* denominator.
RECURSIVE GCD(_, _)
GCD(a, b) == IF b = 0 THEN Abs(a) ELSE GCD(b, a % Abs(b))

Reduce(f) ==
    LET g == GCD(f[1], f[2]) * Sgn(f[2])
    IN <<f[1] \div g, f[2] \div g>>

FracAdd(a, b) == Reduce(<<a[1] * b[2] + b[1] * a[2], a[2] * b[2]>>)
FracSub(a, b) == Reduce(<<a[1] * b[2] - b[1] * a[2], a[2] * b[2]>>)

\* 0.3048 metres per foot, as 3048 / 10000.
FootNum == 3048
FootDen == 10000

-----------------------------------------------------------------------------
(* CreateLixpys_unloc.py *)

Emit(ms) == messages' = messages \o ms

\* Geometry.isMultipart
isMultipartNever(row) == FALSE
isMultipart(row) == Len(row.parts) > 1

\* Distinct values of a column in row order ("if x not in list: append").
RECURSIVE DistinctList(_)
DistinctList(s) ==
    IF s = <<>> THEN <<>>
    ELSE LET rest == DistinctList(SubSeq(s, 1, Len(s) - 1))
             x == s[Len(s)]
         IN IF \E i \in 1..Len(rest) : rest[i] = x THEN rest ELSE Append(rest, x)

Column(rows, F(_)) == [i \in 1..Len(rows) |-> F(rows[i])]
Range(s) == {s[i] : i \in 1..Len(s)}

\* listprint: the members of a that are not in b, in order.
NotInReversed(a, b) == SelectSeq(b, LAMBDA x : x \notin Range(a))
NotIn(a, b) == SelectSeq(a, LAMBDA x : x \notin Range(b))

GetWellid(row) == row.wellid
GetEtid(row) == row.etid
GetEt_id(row) == row.et_id

strat_wellid_list == DistinctList(Column(strat_table, GetWellid))
wwpt_wellid_list == DistinctList(Column(wwpt_file_orig, GetWellid))
wwpt_etid_list == DistinctList(Column(wwpt_file_orig, GetEtid))
xsln_etid_list == DistinctList(Column(xsln_file_orig, GetEt_id))

\* "if buffer_dist <= 0" of section 5.
InvalidBufferOffByOne(dist) == dist < 0
InvalidBuffer(dist) == dist <= 0

\* "if vertical_exaggeration <= 0" of section 5.
InvalidVE(ve) == ve <= 0

\* Section 5: multipart warning, then the buffer and the exaggeration checks.
LixDataQC ==
    /\ tool = "lixpys" /\ pc = "start"
    /\ LET mp == IF \E i \in 1..Len(xsln_file_orig) : isMultipart(xsln_file_orig[i])
                 THEN <<Msg("MultipartWarning", 0)>> ELSE <<>>
       IN IF InvalidBuffer(buffer_dist)
          THEN /\ Emit(mp \o <<Msg("BufferError", 0)>>)
               /\ pc' = "exit"
          ELSE IF InvalidVE(vertical_exaggeration)
          THEN /\ Emit(mp \o <<Msg("VEError", 0)>>)
               /\ pc' = "exit"
          ELSE /\ Emit(mp)
               /\ pc' = "s6"
    /\ UNCHANGED <<inputs, otherData, lixData, workspace, cursor>>

\* The messages of section 6, one per empty input.
RowCountMessagesNoStrat ==
    (IF Len(wwpt_file_orig) = 0 THEN <<Msg("WwptEmptyWarning", 0)>> ELSE <<>>)
    \o (IF Len(xsln_file_orig) = 0 THEN <<Msg("XslnEmptyWarning", 0)>> ELSE <<>>)
RowCountMessages ==
    (IF Len(strat_table) = 0 THEN <<Msg("StratEmptyWarning", 0)>> ELSE <<>>)
    \o (IF Len(wwpt_file_orig) = 0 THEN <<Msg("WwptEmptyWarning", 0)>> ELSE <<>>)
    \o (IF Len(xsln_file_orig) = 0 THEN <<Msg("XslnEmptyWarning", 0)>> ELSE <<>>)

\* Section 6: row counts; an empty input only draws a message.
LixRowCounts ==
    /\ tool = "lixpys" /\ pc = "s6"
    /\ Emit(RowCountMessages)
    /\ pc' = "s7"
    /\ UNCHANGED <<inputs, otherData, lixData, workspace, cursor>>

\* "if listprint_len > 0: printit(...)": the two well id warnings print the
\* length of the list only, the two section id warnings the list as well.
WarnCount(id, listprint) ==
    IF Len(listprint) > 0 THEN <<Msg(id, Len(listprint))>> ELSE <<>>

WarnIfAnyFirst(id, listprint) ==
    IF Len(listprint) > 0 THEN <<Msg(id, <<listprint[1]>>)>> ELSE <<>>
WarnIfAny(id, listprint) ==
    IF Len(listprint) > 0 THEN <<Msg(id, listprint)>> ELSE <<>>

\* A null well id (None in a cursor row).
NullId == 0

\* type() of a well id read from a field of the given type.  Well ids are
\* identified by integers in the model; the field type says whether the
\* table stores them as numbers ("int") or as text ("str").
TypeOf(wellid, field_type) == IF wellid = NullId THEN "NoneType" ELSE field_type

\* "if type(strat_wellid_list[0]) != type(wwpt_wellid_list[0])": the warning
\* of the type check, which reads the first element of both lists.
TypeCheck ==
    IF TypeOf(strat_wellid_list[1], strat_wellid_type)
          # TypeOf(wwpt_wellid_list[1], wwpt_wellid_type)
    THEN <<Msg("TypeMismatchWarning", 0)>> ELSE <<>>

\* wellid_is_numeric: False only when the first stratigraphy well id is a str.
wellid_is_numeric ==
    strat_wellid_list = <<>> \/ TypeOf(strat_wellid_list[1], strat_wellid_type) # "str"

\* Section 7: the four id comparisons, then the type check on element [0]
\* of both well id lists (an IndexError when either list is empty).
LixIdChecks ==
    /\ tool = "lixpys" /\ pc = "s7"
    /\ Emit(WarnCount("StratNoWell", NotIn(strat_wellid_list, wwpt_wellid_list))
            \o WarnCount("WellNoStrat", NotIn(wwpt_wellid_list, strat_wellid_list))
            \o WarnIfAny("WellEtidNoXsln", NotIn(wwpt_etid_list, xsln_etid_list))
            \o WarnIfAny("XslnNoWell", NotIn(xsln_etid_list, wwpt_etid_list))
            \o (IF strat_wellid_list = <<>> \/ wwpt_wellid_list = <<>>
                THEN <<>> ELSE TypeCheck))
    /\ pc' = IF strat_wellid_list = <<>> \/ wwpt_wellid_list = <<>> THEN "crashed" ELSE "s9"
    /\ UNCHANGED <<inputs, otherData, lixData, workspace, cursor>>

\* Sections 9 and 10: the empty 3D and 2D polyline feature classes.
LixCreateOutputs ==
    /\ tool = "lixpys" /\ pc = "s9"
    /\ workspace' = workspace \cup {"lixpys_unloc_3d", "lixpys_unloc_2d_line"}
    /\ polylinefile_3d' = <<>>
    /\ polylinefile_2d' = <<>>
    /\ pc' = "s11"
    /\ UNCHANGED <<inputs, otherData, xsln_temp, wwpt_by_xs, wwpt_merge, polygon_file,
                   nomatch_list, messages, cursor>>

\* Sections 11 to 13 (head): the feature dataset, the temporary copy of the
\* well points with its near fields, and the empty xsln_temp.
LixCreateTemp ==
    /\ tool = "lixpys" /\ pc = "s11"
    /\ workspace' = workspace \cup {"unloc_wwpt_by_xs", "wwpt_unloc_temp", "xsln_temp"}
    /\ xsln_temp' = <<>>
    /\ cursor' = 1
    /\ pc' = "s13"
    /\ UNCHANGED <<inputs, otherData, wwpt_by_xs, wwpt_merge, polylinefile_3d, polylinefile_2d,
                   polygon_file, nomatch_list, messages>>

\* Section 13, body of the loop: the vertices of part 0 with the first and
\* the last replaced by points buffer_dist further out.
ExtendLineInward(verts, dist) ==
    LET n == Len(verts)
        new_beg == pointFromAngleAndDistance(verts[1], angleTo(verts[1], verts[2]), dist)
        new_end == pointFromAngleAndDistance(verts[n], angleTo(verts[n - 1], verts[n]), dist)
    IN [i \in 1..n |-> IF i = n THEN new_end ELSE IF i = 1 THEN new_beg ELSE verts[i]]
ExtendLineAppend(verts, dist) ==
    LET n == Len(verts)
        new_beg == pointFromAngleAndDistance(verts[1], angleTo(verts[2], verts[1]), dist)
        new_end == pointFromAngleAndDistance(verts[n], angleTo(verts[n - 1], verts[n]), dist)
    IN <<new_beg>> \o verts \o <<new_end>>
ExtendLine(verts, dist) ==
    LET n == Len(verts)
        beg_angle == angleTo(verts[2], verts[1])
        end_angle == angleTo(verts[n - 1], verts[n])
        new_beg == pointFromAngleAndDistance(verts[1], beg_angle, dist)
        new_end == pointFromAngleAndDistance(verts[n], end_angle, dist)
    IN [i \in 1..n |-> IF i = n THEN new_end ELSE IF i = 1 THEN new_beg ELSE verts[i]]

LixExtend ==
    /\ tool = "lixpys" /\ pc = "s13" /\ cursor <= Len(xsln_file_orig)
    /\ LET line == xsln_file_orig[cursor]
       IN xsln_temp' = Append(xsln_temp,
              [et_id |-> line.et_id, verts |-> ExtendLine(line.parts[1], buffer_dist)])
    /\ cursor' = cursor + 1
    /\ UNCHANGED <<inputs, otherData, wwpt_by_xs, wwpt_merge, polylinefile_3d, polylinefile_2d,
                   polygon_file, nomatch_list, pc, messages, workspace>>

LixExtendDone ==
    /\ tool = "lixpys" /\ pc = "s13" /\ cursor > Len(xsln_file_orig)
    /\ pc' = "s14"
    /\ cursor' = 1
    /\ UNCHANGED <<inputs, otherData, lixData, messages, workspace>>

\* OnLine_DIST of section 14: the measure along the extended line less the
\* buffer distance.
OnLineDistNoOffset(verts, near_pt, dist) == measureOnLine(verts, near_pt)
OnLineDistAbs(verts, near_pt, dist) == Abs(measureOnLine(verts, near_pt) - dist)
OnLineDist(verts, near_pt, dist) == measureOnLine(verts, near_pt) - dist

\* Section 14, body of the loop: select the wells of this section id, run
\* Near against the extended line and fill OnLine_DIST.
LixNear ==
    /\ tool = "lixpys" /\ pc = "s14" /\ cursor <= Len(xsln_temp)
    /\ LET line == xsln_temp[cursor]
           sel == SelectSeq(wwpt_file_orig, LAMBDA w : w.etid = line.et_id)
           locs == UNION {NearLocations(line.verts, <<sel[i].x, sel[i].y>>) : i \in 1..Len(sel)}
       IN \E near \in [1..Len(sel) -> locs] :
            /\ \A i \in 1..Len(sel) :
                   near[i] \in NearLocations(line.verts, <<sel[i].x, sel[i].y>>)
            /\ wwpt_by_xs' =
                 [e \in DOMAIN wwpt_by_xs \cup {line.et_id} |->
                    IF e = line.et_id
                    THEN [i \in 1..Len(sel) |->
                            [wellid |-> sel[i].wellid, etid |-> sel[i].etid,
                             x |-> sel[i].x, y |-> sel[i].y,
                             NEAR_X |-> near[i][1], NEAR_Y |-> near[i][2],
                             NEAR_DIST |-> ISqrt(NearD2(line.verts, <<sel[i].x, sel[i].y>>)),
                             OnLine_DIST |-> OnLineDist(line.verts, near[i], buffer_dist)]]
                    ELSE wwpt_by_xs[e]]
    /\ cursor' = cursor + 1
    /\ UNCHANGED <<inputs, otherData, xsln_temp, wwpt_merge, polylinefile_3d, polylinefile_2d,
                   polygon_file, nomatch_list, pc, messages, workspace>>

\* Section 15: the temporary copy of the well points is deleted.
LixNearDone ==
    /\ tool = "lixpys" /\ pc = "s14" /\ cursor > Len(xsln_temp)
    /\ workspace' = workspace \ {"wwpt_unloc_temp"}
    /\ pc' = "s16"
    /\ UNCHANGED <<inputs, otherData, lixData, messages, cursor>>

\* Section 16: Merge of the per-section files, in the order ListFeatureClasses
\* returns them (an order arcpy does not document).  Merge fails without input.
LixMerge ==
    /\ tool = "lixpys" /\ pc = "s16"
    /\ IF DOMAIN wwpt_by_xs = {}
       THEN /\ pc' = "crashed"
            /\ UNCHANGED <<wwpt_merge, workspace, cursor>>
       ELSE /\ \E wwpt_list \in Orderings(DOMAIN wwpt_by_xs) :
                 wwpt_merge' = Concat([i \in 1..Len(wwpt_list) |-> wwpt_by_xs[wwpt_list[i]]])
            /\ workspace' = workspace \cup {"wwpt_unloc_merge"}
            /\ cursor' = 1
            /\ pc' = "s17"
    /\ nomatch_list' = <<>>
    /\ UNCHANGED <<inputs, otherData, xsln_temp, wwpt_by_xs, polylinefile_3d, polylinefile_2d,
                   polygon_file, messages>>

\* x_coord of section 17: OnLine_DIST / 0.3048 / vertical_exaggeration.
XCoordNoFeet(online_dist, ve) == Frac(online_dist, ve)
XCoord(online_dist, ve) == Frac(online_dist * FootDen, FootNum * ve)

\* pct_dist of section 17: NEAR_DIST / buffer_dist * 200.
PctDistHundred(dist, buf) == Frac(dist * 100, buf)
PctDist(dist, buf) == Frac(dist * 200, buf)

\* The two "== None" tests at the head of the loop of section 17.
IsNullSkip(row) == row.elev_top = NULL \/ row.elev_bot = NULL

\* The message printed for a skipped record.
SkipMessagesTopOnly(row, strat_oid) ==
    IF row.elev_top = NULL THEN <<Msg("ElevTopNullSkip", strat_oid)>> ELSE <<>>
SkipMessages(row, strat_oid) ==
    IF row.elev_top = NULL THEN <<Msg("ElevTopNullSkip", strat_oid)>>
    ELSE IF row.elev_bot = NULL THEN <<Msg("ElevBotNullSkip", strat_oid)>>
    ELSE <<>>

\* The search cursor on wwpt_merge with the where clause on the well id.
WhereWellidAll(rows, wellid) == rows
WhereWellidFirstEtid(rows, wellid) ==
    LET sel == SelectSeq(rows, LAMBDA w : w.wellid = wellid)
    IN [i \in 1..Len(sel) |-> [sel[i] EXCEPT !.etid = rows[1].etid]]
WhereWellidReversed(rows, wellid) ==
    LET sel == SelectSeq(rows, LAMBDA w : w.wellid = wellid)
    IN [i \in 1..Len(sel) |-> sel[Len(sel) + 1 - i]]
WhereWellid(rows, wellid) == SelectSeq(rows, LAMBDA w : w.wellid = wellid)

\* The where clause is "field=value" (numeric) or "field='value'" (text) by
\* wellid_is_numeric.  It is well formed when the value is not None and the
\* style fits the type of the value and of the well id field it queries.
WellFormedClause(wellid) ==
    /\ wellid # NullId
    /\ strat_wellid_type = wwpt_wellid_type
    /\ wellid_is_numeric <=> strat_wellid_type = "int"

\* What the search cursor with the where clause can do: return the rows of
\* the well; or, with a clause that is not well formed, raise (invalid SQL),
\* return nothing, or return the rows after an implicit conversion (a None
\* value never selects rows).
WhereOutcomes(wellid) ==
    IF WellFormedClause(wellid) THEN {"rows"}
    ELSE IF wellid = NullId THEN {"error", "none"}
    ELSE {"error", "none", "rows"}

\* The report on nomatch_list after the loop.
NoMatchReportOffByOne(list) ==
    IF Len(list) > 1 THEN <<Msg("NoMatchCount", Len(list))>> ELSE <<>>
NoMatchReport(list) ==
    IF Len(list) > 0 THEN <<Msg("NoMatchCount", Len(list))>> ELSE <<>>

\* Section 17, body of the loop, for the stratigraphy record at the cursor.
LixStick ==
    /\ tool = "lixpys" /\ pc = "s17" /\ cursor <= Len(strat_table)
    /\ LET strat_oid == cursor
           row == strat_table[cursor]
           wellid == row.wellid
       IN IF IsNullSkip(row)
          THEN /\ Emit(SkipMessages(row, strat_oid))
               /\ UNCHANGED <<polylinefile_3d, polylinefile_2d, nomatch_list, pc>>
          ELSE \E outcome \in WhereOutcomes(wellid) :
             LET wwpt == IF outcome = "rows" THEN WhereWellid(wwpt_merge, wellid) ELSE <<>>
                 i == Len(wwpt)
             IN IF outcome = "error"
                THEN /\ pc' = "crashed"
                     /\ UNCHANGED <<polylinefile_3d, polylinefile_2d, nomatch_list, messages>>
                ELSE IF i = 0
                THEN /\ nomatch_list' = Append(nomatch_list, wellid)
                     /\ UNCHANGED <<polylinefile_3d, polylinefile_2d, messages, pc>>
                ELSE LET well == wwpt[i]   \* the loop leaves the last match behind
                         real_x == well.x
                         real_y == well.y
                         real_z_top == Val(row.elev_top)
                         real_z_bot == Val(row.elev_bot)
                         x_coord == XCoord(well.OnLine_DIST, vertical_exaggeration)
                         dist == well.NEAR_DIST
                         pct_dist == PctDist(dist, buffer_dist)
                         et_id == well.etid
                     IN /\ polylinefile_3d' = Append(polylinefile_3d,
                              [shape |-> <<<<real_x, real_y, real_z_top>>,
                                           <<real_x, real_y, real_z_bot>>>>,
                               wellid |-> wellid, et_id |-> et_id, x_coord |-> real_x,
                               y_coord |-> real_y, z_top |-> real_z_top, z_bot |-> real_z_bot,
                               strat_oid |-> strat_oid])
                        /\ polylinefile_2d' = Append(polylinefile_2d,
                              [shape |-> <<<<x_coord, real_z_top>>, <<x_coord, real_z_bot>>>>,
                               wellid |-> wellid, et_id |-> et_id, x_coord |-> real_x,
                               y_coord |-> real_y, z_top |-> real_z_top, z_bot |-> real_z_bot,
                               strat_oid |-> strat_oid, distance |-> dist,
                               pct_dist |-> pct_dist])
                        /\ UNCHANGED <<nomatch_list, messages, pc>>
    /\ cursor' = cursor + 1
    /\ UNCHANGED <<inputs, otherData, xsln_temp, wwpt_by_xs, wwpt_merge, polygon_file, workspace>>

\* Section 17, after the loop: the unmatched records are reported once.
LixStickReport ==
    /\ tool = "lixpys" /\ pc = "s17" /\ cursor > Len(strat_table)
    /\ Emit(NoMatchReport(nomatch_list) \o <<Msg("PolylineCompleted", 0)>>)
    /\ pc' = "s19"
    /\ UNCHANGED <<inputs, otherData, lixData, workspace, cursor>>

\* Section 18: the fields of the stratigraphy table that are joined to the
\* sticks, i.e. all but the ones of fields_not_to_join.
fields_not_to_join ==
    {"OBJECTID", "Join_Count", "TARGET_FID", "JOIN_FID", "c5st_seq_no", "relateid",
     "depth_top", "depth_bot", "wellid", "elev_top", "elev_bot", "bdrkelev",
     "depth2bdrk", "first_bdrk", "last_strat", "ohtopunit", "ohtopelev", "ohbotunit",
     "ohbotelev", "botholelev", "aquifer", "Join_Count_1", "TARGET_FID_1", "et_id",
     "utmn", "utme_min", "utme_max", "mn_et_id", "BUFF_DIST", "ORIG_FID",
     "strat_orig", "GlobalID"}

relevant_strat_fields_all ==
    IF strat_table = <<>> THEN {} ELSE DOMAIN strat_table[1]
relevant_strat_fields ==
    IF strat_table = <<>> THEN {} ELSE DOMAIN strat_table[1] \ fields_not_to_join

\* The name JoinField gives a joined field: its own, or with a suffix when
\* the input table has a field of that name already.
RECURSIVE JoinedName(_, _)
JoinedName(name, existing) ==
    IF name \notin existing THEN name ELSE JoinedName(name \o "_1", existing)

\* arcpy.management.JoinField on strat_oid = OBJECTID: every row of in_data
\* gets the fields of the row of join_table with that object id.
JoinFieldOid(in_data, join_table, fields) ==
    IF in_data = <<>> THEN <<>>
    ELSE LET existing == DOMAIN in_data[1]
             source(n) == CHOOSE f \in fields : JoinedName(f, existing) = n
         IN [i \in 1..Len(in_data) |->
                in_data[i] @@ [n \in {JoinedName(f, existing) : f \in fields} |->
                    IF in_data[i].strat_oid \in 1..Len(join_table)
                    THEN Some(join_table[in_data[i].strat_oid][source(n)])
                    ELSE NULL]]

\* Section 19: the relevant stratigraphy fields are joined to the 3D and the
\* 2D polyline files.
LixJoinFields ==
    /\ tool = "lixpys" /\ pc = "s19"
    /\ polylinefile_3d' = JoinFieldOid(polylinefile_3d, strat_table, relevant_strat_fields)
    /\ polylinefile_2d' = JoinFieldOid(polylinefile_2d, strat_table, relevant_strat_fields)
    /\ pc' = "s20"
    /\ UNCHANGED <<inputs, otherData, xsln_temp, wwpt_by_xs, wwpt_merge, polygon_file,
                   nomatch_list, messages, workspace, cursor>>

\* bufferdist of section 20: 130 / vertical_exaggeration + well_stick_width.
StickWidthNum == 130
BufferDistOfNoWidth(ve, width) == Frac(StickWidthNum, ve)
BufferDistOf(ve, width) == Frac(StickWidthNum + width * ve, ve)

\* arcpy.analysis.Buffer with FLAT ends of a 2D stick (a vertical segment):
\* the rectangle that reaches dist to either side of the segment and ends
\* with it.
FlatBuffer(line, dist) ==
    LET x == line[1][1]
        lo == Min2(line[1][2], line[2][2])
        hi == Max2(line[1][2], line[2][2])
    IN <<<<FracSub(x, dist), lo>>, <<FracSub(x, dist), hi>>,
         <<FracAdd(x, dist), hi>>, <<FracAdd(x, dist), lo>>>>

\* arcpy.management.Sort on one field, ascending; rows with equal keys keep
\* their order.
RECURSIVE SortByWellid(_)
SortByWellidNone(rows) == rows
SortByWellid(rows) ==
    IF rows = <<>> THEN <<>>
    ELSE LET last == rows[Len(rows)]
             done == SortByWellid(SubSeq(rows, 1, Len(rows) - 1))
         IN SelectSeq(done, LAMBDA r : r.wellid <= last.wellid)
            \o <<last>>
            \o SelectSeq(done, LAMBDA r : r.wellid > last.wellid)

\* Section 20: flat buffer of every 2D line (the polygon keeps the fields of
\* its line), sorted by well id, and the copy that receives the 2D projection.
LixPolygons ==
    /\ tool = "lixpys" /\ pc = "s20"
    /\ LET bufferdist == BufferDistOf(vertical_exaggeration, well_stick_width)
           temp_polygon_file ==
               [i \in 1..Len(polylinefile_2d) |->
                   [line |-> polylinefile_2d[i].shape,
                    shape |-> FlatBuffer(polylinefile_2d[i].shape, bufferdist),
                    BUFF_DIST |-> bufferdist] @@ polylinefile_2d[i]]
       IN polygon_file' = SortByWellid(temp_polygon_file)
    /\ workspace' = workspace \cup {"lixpys_unloc_2d_poly_temp", "lixpys_unloc_2d_poly",
                                    "lixpy_unloc_2d_poly_prj"}
    /\ pc' = "s21"
    /\ UNCHANGED <<inputs, otherData, xsln_temp, wwpt_by_xs, wwpt_merge, polylinefile_3d,
                   polylinefile_2d, nomatch_list, messages, cursor>>

\* The datasets section 21 deletes, in the order of its Delete calls.
TempFiles == <<"lixpys_unloc_2d_poly_temp", "unloc_wwpt_by_xs", "wwpt_unloc_merge",
               "xsln_temp", "lixpys_unloc_2d_line", "lixpys_unloc_3d">>

Deleted(k) == {TempFiles[i] : i \in 1..k}

\* Section 21: the Delete calls inside one try block.  The first k succeed;
\* if one raises (k < 6) the rest are skipped and a warning is printed.
LixCleanup ==
    /\ tool = "lixpys" /\ pc = "s21"
    /\ \E k \in 0..Len(TempFiles) :
         /\ workspace' = workspace \ Deleted(k)
         /\ Emit(IF k < Len(TempFiles) THEN <<Msg("DeleteWarning", 0)>> ELSE <<>>)
    /\ pc' = "s22"
    /\ UNCHANGED <<inputs, otherData, lixData, cursor>>

\* Section 22: the end message.
LixEnd ==
    /\ tool = "lixpys" /\ pc = "s22"
    /\ Emit(<<Msg("ToolCompleted", 0)>>)
    /\ pc' = "done"
    /\ UNCHANGED <<inputs, otherData, lixData, workspace, cursor>>

NextLixpys ==
    \/ LixDataQC
    \/ LixRowCounts
    \/ LixIdChecks
    \/ LixCreateOutputs
    \/ LixCreateTemp
    \/ LixExtend
    \/ LixExtendDone
    \/ LixNear
    \/ LixNearDone
    \/ LixMerge
    \/ LixStick
    \/ LixStickReport
    \/ LixJoinFields
    \/ LixPolygons
    \/ LixCleanup
    \/ LixEnd

-----------------------------------------------------------------------------
(* Inputs of the well-stick runs *)

\* Two crossing cross-section lines.
LineA == [et_id |-> "A", parts |-> <<<<<<0, 0>>, <<4, 0>>>>>>]
LineB == [et_id |-> "B", parts |-> <<<<<<2, -2>>, <<2, 2>>>>>>]

WellIds == {1, 2}
SectionIds == {"A", "B"}

\* Every well has one location; a well joined to several cross-sections
\* (JOIN_ONE_TO_MANY) appears once per section with the same coordinates.
SiteOf(wellid) == IF wellid = 1 THEN <<1, 1>> ELSE <<4, -1>>

WellRows ==
    {[wellid |-> w, etid |-> e, x |-> SiteOf(w)[1], y |-> SiteOf(w)[2]] :
        w \in WellIds, e \in SectionIds}

ElevPairs == {<<Some(20), Some(10)>>, <<NULL, Some(10)>>, <<Some(20), NULL>>}

StratRows ==
    {[wellid |-> w, elev_top |-> e[1], elev_bot |-> e[2]] : w \in WellIds, e \in ElevPairs}

InitState ==
    /\ pc = "start"
    /\ messages = <<>>
    /\ workspace = {}
    /\ xsln_temp = <<>>
    /\ wwpt_by_xs = <<>>
    /\ wwpt_merge = <<>>
    /\ polylinefile_3d = <<>>
    /\ polylinefile_2d = <<>>
    /\ polygon_file = <<>>
    /\ nomatch_list = <<>>
    /\ profiles_2d = <<>>
    /\ wwpt_joined = <<>>
    /\ cursor = 1

\* Both well id fields are numeric.
NumericWellIds ==
    /\ strat_wellid_type = "int"
    /\ wwpt_wellid_type = "int"

\* Parameters of the tools that are not running.
NoRasterInputs ==
    /\ xsln_etid_field = "et_id"
    /\ rasters_list = <<>>
    /\ merge_boolean = FALSE

NoCwiInputs ==
    /\ dem_raster = "dem"
    /\ strat_boolean = FALSE
    /\ dpl_boolean = FALSE
    /\ state_wwpt = <<>>

\* Well-stick runs with valid parameters over every stratigraphy table and
\* well point file within the bounds.  The well point file holds one row per
\* well and cross-section (the output of the spatial join of GetCWIdata).
InitSticks ==
    /\ tool = "lixpys"
    /\ buffer_dist = 2
    /\ vertical_exaggeration = 2
    /\ well_stick_width = 1
    /\ xsln_file_orig \in {<<LineA>>, <<LineA, LineB>>}
    /\ wwpt_file_orig \in SeqsUpTo(WellRows, MaxWells)
    /\ \A i, j \in 1..Len(wwpt_file_orig) : i # j => wwpt_file_orig[i] # wwpt_file_orig[j]
    /\ strat_table \in SeqsUpTo(StratRows, MaxStrat)
    /\ NoRasterInputs /\ NoCwiInputs
    /\ InitState
    /\ NumericWellIds

SpecSticks == InitSticks /\ [][NextLixpys]_vars

\* Well-stick runs with valid parameters over cross-section lines of several
\* shapes and directions (the last one ends heading back towards its own
\* second segment), every buffer distance up to MaxBuffer and one well
\* anywhere within MaxReach of the line's extent.  NEAR_DIST is a whole number
\* in these runs.
GeomShapes ==
    { <<<<0, 0>>, <<4, 0>>>>,
      <<<<4, 0>>, <<0, 0>>>>,
      <<<<0, 0>>, <<0, 3>>>>,
      <<<<0, 0>>, <<3, 0>>, <<3, 3>>>>,
      <<<<0, 3>>, <<0, 0>>, <<3, 0>>, <<3, 3>>>>,
      <<<<6, 1>>, <<6, 0>>, <<-1, 0>>, <<-1, 5>>, <<3, 5>>, <<3, 4>>>> }

GeomSites ==
    {<<x, y>> : x \in (0 - MaxReach)..(4 + MaxReach), y \in (0 - MaxReach)..(3 + MaxReach)}

InitGeom ==
    /\ tool = "lixpys"
    /\ buffer_dist \in 1..MaxBuffer
    /\ vertical_exaggeration = 2
    /\ well_stick_width = 1
    /\ \E shape \in GeomShapes : xsln_file_orig = <<[et_id |-> "A", parts |-> <<shape>>]>>
    /\ \E site \in GeomSites :
          /\ wwpt_file_orig = <<[wellid |-> 1, etid |-> "A", x |-> site[1], y |-> site[2]]>>
          /\ LET d2 == NearD2(ExtendLine(xsln_file_orig[1].parts[1], buffer_dist), site)
             IN \E r \in 0..d2 : r * r = d2
    /\ strat_table = <<[wellid |-> 1, elev_top |-> Some(20), elev_bot |-> Some(10)]>>
    /\ NoRasterInputs /\ NoCwiInputs
    /\ InitState
    /\ NumericWellIds

SpecGeom == InitGeom /\ [][NextLixpys]_vars

\* Well-stick runs on a straight cross-section line with three wells: well k
\* lies at position along[k] of the line's axis, k - 2 off the axis.
StraightShapes ==
    { <<<<0, 0>>, <<4, 0>>>>,
      <<<<4, 0>>, <<0, 0>>>>,
      <<<<0, 0>>, <<0, 3>>>> }

StraightSite(shape, t, off) ==
    IF shape[1][2] = shape[2][2] THEN <<t, off>> ELSE <<off, t>>

InitStraight ==
    /\ tool = "lixpys"
    /\ buffer_dist \in 1..MaxBuffer
    /\ vertical_exaggeration = 2
    /\ well_stick_width = 1
    /\ \E shape \in StraightShapes :
          /\ xsln_file_orig = <<[et_id |-> "A", parts |-> <<shape>>]>>
          /\ \E along \in [1..3 -> (0 - MaxReach)..(4 + MaxReach)] :
                /\ along[1] <= along[2] /\ along[2] <= along[3]
                /\ wwpt_file_orig =
                      [k \in 1..3 |->
                          [wellid |-> k, etid |-> "A",
                           x |-> StraightSite(shape, along[k], k - 2)[1],
                           y |-> StraightSite(shape, along[k], k - 2)[2]]]
                /\ \A k \in 1..3 :
                      LET d2 == NearD2(ExtendLine(shape, buffer_dist),
                                       StraightSite(shape, along[k], k - 2))
                      IN \E r \in 0..d2 : r * r = d2
    /\ strat_table = <<[wellid |-> 2, elev_top |-> Some(20), elev_bot |-> Some(10)]>>
    /\ NoRasterInputs /\ NoCwiInputs
    /\ InitState
    /\ NumericWellIds

SpecStraight == InitStraight /\ [][NextLixpys]_vars

\* Well-stick runs with the parameters the script hard-codes for testing
\* (buffer 500, exaggeration 50) on a straight line of 1000 m: well 1 lies
\* abreast of the end of the line, 50 m off it; an optional well 2 lies on
\* the start extension.
ScenarioLine == [et_id |-> "A", parts |-> <<<<<<0, 0>>, <<1000, 0>>>>>>]

ScenarioWells ==
    { <<[wellid |-> 1, etid |-> "A", x |-> 1000, y |-> 50]>>,
      <<[wellid |-> 1, etid |-> "A", x |-> 1000, y |-> 50],
        [wellid |-> 2, etid |-> "A", x |-> -200, y |-> 0]>> }

InitScenario ==
    /\ tool = "lixpys"
    /\ buffer_dist = 500
    /\ vertical_exaggeration = 50
    /\ well_stick_width = 1
    /\ xsln_file_orig = <<ScenarioLine>>
    /\ wwpt_file_orig \in ScenarioWells
    /\ strat_table \in SeqsUpTo(StratRows, MaxStrat)
    /\ NoRasterInputs /\ NoCwiInputs
    /\ InitState
    /\ NumericWellIds

SpecScenario == InitScenario /\ [][NextLixpys]_vars

-----------------------------------------------------------------------------
(* RasterProfiles.py *)

reserved_fields == {"OBJECTID", "SHAPE", "Shape", "Shape_Length"}

\* str.isalnum() of a raster name of the model.
isalnum(raster) == raster \in {"topo", "bedrock"}

\* "if vertical_exaggeration <= 0" of section 2A.
RasInvalidVEOffByOne(ve) == ve < 0
RasInvalidVE(ve) == ve <= 0

\* Section 2A: the empty and multipart messages, then the reserved field and
\* the exaggeration checks.
RasDataQC ==
    /\ tool = "raster" /\ pc = "start"
    /\ LET empty == IF Len(xsln_file_orig) = 0
                    THEN <<Msg("XslnEmptyWarning", 0)>> ELSE <<>>
           mp == IF \E i \in 1..Len(xsln_file_orig) : isMultipart(xsln_file_orig[i])
                 THEN <<Msg("MultipartWarning", 0)>> ELSE <<>>
       IN IF xsln_etid_field \in reserved_fields
          THEN /\ Emit(empty \o mp \o <<Msg("ReservedFieldError", 0)>>)
               /\ pc' = "exit"
          ELSE IF RasInvalidVE(vertical_exaggeration)
          THEN /\ Emit(empty \o mp \o <<Msg("VEError", 0)>>)
               /\ pc' = "exit"
          ELSE /\ Emit(empty \o mp)
               /\ pc' = "r3"
    /\ UNCHANGED <<inputs, lixData, otherData, workspace, cursor>>

\* Section 3: raster names must be alphanumeric.
RasNames ==
    /\ tool = "raster" /\ pc = "r3"
    /\ IF \E i \in 1..Len(rasters_list) : ~isalnum(rasters_list[i])
       THEN /\ Emit(<<Msg("RasterNameError", 0)>>)
            /\ pc' = "exit"
       ELSE /\ Emit(<<>>)
            /\ pc' = "r5"
    /\ UNCHANGED <<inputs, lixData, otherData, workspace, cursor>>

\* Section 5: the fields of the cross-section line file that are joined to
\* the profiles, i.e. all but the ones of fields_no_join (the section id
\* field is the field et_id of the model, the geometry its field parts).
fields_no_join == {"et_id", "OBJECTID", "Shape", "Join_Count", "TARGET_FID", "Shape_Length"}

xsln_field_names ==
    IF xsln_file_orig = <<>> THEN {}
    ELSE (DOMAIN xsln_file_orig[1] \ {"parts"}) \ fields_no_join

\* arcpy.management.JoinField on the section id: every row of in_data gets
\* the fields of the first row of join_table with its section id (None
\* when there is no such row).
JoinFieldNone(in_data, join_table, fields) == in_data
JoinField(in_data, join_table, fields) ==
    IF in_data = <<>> THEN <<>>
    ELSE LET existing == DOMAIN in_data[1]
             source(n) == CHOOSE f \in fields : JoinedName(f, existing) = n
             match(r) == SelectSeq(join_table, LAMBDA l : l.et_id = r.et_id)
         IN [i \in 1..Len(in_data) |->
                in_data[i] @@ [n \in {JoinedName(f, existing) : f \in fields} |->
                    IF match(in_data[i]) = <<>> THEN NULL
                    ELSE Some(match(in_data[i])[1][source(n)])]]

\* Rows an insert cursor adds to a table: the fields it does not write are
\* None.
Inserted(rows, table) ==
    IF table = <<>> THEN rows
    ELSE [i \in 1..Len(rows) |->
             rows[i] @@ [n \in DOMAIN table[1] \ DOMAIN rows[i] |-> NULL]]

\* DeleteField with KEEP_FIELDS on the merged collection: only the object
\* id, the geometry (field shape of the model), the section id and the raster
\* name stay.
keep_fields == {"OBJECTID", "Shape", "shape", "Shape_Length", "et_id", "raster_name"}

KeepFields(rows) ==
    [i \in 1..Len(rows) |-> [n \in DOMAIN rows[i] \cap keep_fields |-> rows[i][n]]]

merged_profiles_2d_name == "all_profiles_2d"

Profiles2dName(name) == IF merge_boolean THEN merged_profiles_2d_name ELSE name

\* Section 5: with the merge option the merged collection is created empty.
RasCreateMerged ==
    /\ tool = "raster" /\ pc = "r5"
    /\ IF merge_boolean
       THEN /\ workspace' = workspace \cup {merged_profiles_2d_name}
            /\ profiles_2d' = [n \in {merged_profiles_2d_name} |-> <<>>]
       ELSE UNCHANGED <<workspace, profiles_2d>>
    /\ cursor' = 1
    /\ pc' = "r6"
    /\ UNCHANGED <<inputs, lixData, wwpt_joined, messages>>

\* Elevation of a raster surface at a map position.
RasterZ(raster, v) == IF raster = "topo" THEN 100 + v[1] ELSE 50 - v[2]

\* The raster has no data at a map position (a gap of the surface).
NoData(raster, v) == raster = "bedrock" /\ v = <<2, 0>>

\* InterpolateShape samples the surface along the line at the cell size (1):
\* the vertices of a part and every whole step between them, in order.
RECURSIVE DensePts(_)
DensePts(verts) ==
    IF Len(verts) <= 1 THEN verts
    ELSE LET a == verts[Len(verts) - 1]
             b == verts[Len(verts)]
             d == angleTo(a, b)
         IN DensePts(SubSeq(verts, 1, Len(verts) - 1))
            \o [t \in 1..SegLen(a, b) |-> <<a[1] + d[1] * t, a[2] + d[2] * t>>]

\* The stretches of a sampled part that lie on the surface, each of them a
\* line (two vertices or more), in order along the part.
Stretches(raster, pts) ==
    LET data(i) == ~NoData(raster, pts[i])
        last(i) == CHOOSE j \in i..Len(pts) :
                      /\ \A k \in i..j : data(k)
                      /\ j = Len(pts) \/ ~data(j + 1)
        first == SelectSeq([i \in 1..Len(pts) |-> i], LAMBDA i :
                      /\ data(i) /\ (i = 1 \/ ~data(i - 1))
                      /\ i < Len(pts) /\ data(i + 1))
    IN [n \in 1..Len(first) |-> SubSeq(pts, first[n], last(first[n]))]

\* InterpolateShape then MultipartToSinglepart: one 3D profile per stretch of
\* every part of every cross-section line, with the line's section id.
Profiles3d(raster) ==
    Concat([i \in 1..Len(xsln_file_orig) |->
        Concat([k \in 1..Len(xsln_file_orig[i].parts) |->
            LET runs == Stretches(raster, DensePts(xsln_file_orig[i].parts[k]))
            IN [n \in 1..Len(runs) |->
                  [et_id |-> xsln_file_orig[i].et_id,
                   verts |-> [j \in 1..Len(runs[n]) |->
                                <<runs[n][j][1], runs[n][j][2],
                                  RasterZ(raster, runs[n][j])>>]]]])])

\* 2D vertex of section 6: measure on the original line / 0.3048 / VE, and z.
Vertex2dNoFeet(xsln_geometry, vertex, ve) ==
    <<Frac(measureOnLine(xsln_geometry, <<vertex[1], vertex[2]>>), ve), vertex[3]>>
Vertex2d(xsln_geometry, vertex, ve) ==
    <<Frac(measureOnLine(xsln_geometry, <<vertex[1], vertex[2]>>) * FootDen, FootNum * ve),
      vertex[3]>>

\* The 2D profiles section 6 writes for one cross-section line.
LineProfiles2dUntagged(line, profiles_3d, name) ==
    LET xsln_geometry == line.parts[1]
        sel == SelectSeq(profiles_3d, LAMBDA f : f.et_id = line.et_id)
    IN [i \in 1..Len(sel) |->
          [shape |-> [j \in 1..Len(sel[i].verts) |->
                         Vertex2d(xsln_geometry, sel[i].verts[j], vertical_exaggeration)],
           et_id |-> sel[i].et_id,
           raster_name |-> "raster"]]
LineProfiles2d(line, profiles_3d, name) ==
    LET xsln_geometry == line.parts[1]
        sel == SelectSeq(profiles_3d, LAMBDA f : f.et_id = line.et_id)
    IN [i \in 1..Len(sel) |->
          [shape |-> [j \in 1..Len(sel[i].verts) |->
                         Vertex2d(xsln_geometry, sel[i].verts[j], vertical_exaggeration)],
           et_id |-> sel[i].et_id,
           raster_name |-> name]]

\* Section 6, one raster: its 3D profiles, the 2D collection, the 2D
\* geometry of every cross-section line, the removal of the 3D files (each
\* Delete in its own try: the ones in failed raise and are reported) and the
\* join of the fields of the cross-section lines.
RasProfiles ==
    /\ tool = "raster" /\ pc = "r6" /\ cursor <= Len(rasters_list)
    /\ LET name == rasters_list[cursor]
           target == Profiles2dName(name)
           before == IF merge_boolean THEN profiles_2d[target] ELSE <<>>
           rows == Concat([i \in 1..Len(xsln_file_orig) |->
                      LineProfiles2d(xsln_file_orig[i], Profiles3d(name), name)])
       IN /\ profiles_2d' = [n \in DOMAIN profiles_2d \cup {target} |->
                               IF n = target
                               THEN JoinField(before \o Inserted(rows, before),
                                              xsln_file_orig, xsln_field_names)
                               ELSE profiles_2d[n]]
          /\ \E failed \in SUBSET {name \o "profiles3d_byxsec", name \o "_profiles3d"} :
               /\ workspace' = workspace \cup {target} \cup failed
               /\ Emit([i \in 1..Cardinality(failed) |-> Msg("UnableToDelete", 0)])
    /\ cursor' = cursor + 1
    /\ UNCHANGED <<inputs, lixData, wwpt_joined, pc>>

\* After the loop: with the merge option the joined fields are deleted from
\* the merged collection; then section 7, the end message.
RasEnd ==
    /\ tool = "raster" /\ pc = "r6" /\ cursor > Len(rasters_list)
    /\ profiles_2d' = IF merge_boolean
                      THEN [n \in DOMAIN profiles_2d |-> KeepFields(profiles_2d[n])]
                      ELSE profiles_2d
    /\ Emit(<<Msg("ToolCompleted", 0)>>)
    /\ pc' = "done"
    /\ UNCHANGED <<inputs, lixData, wwpt_joined, workspace, cursor>>

NextRaster ==
    \/ RasDataQC
    \/ RasNames
    \/ RasCreateMerged
    \/ RasProfiles
    \/ RasEnd

-----------------------------------------------------------------------------
(* GetCWIdata.py and GetCWIdata_unloc.py *)

CwiTools == {"getcwi", "getcwi_unloc"}

\* p lies beyond end a of segment a-b (its projection falls outside at a).
Beyond(a, b, p) ==
    /\ NearestOnSeg(a, b, p) = a
    /\ IF a[2] = b[2] THEN p[1] # a[1] ELSE p[2] # a[2]

\* p is inside the FLAT buffer of a polyline: within dist of a segment, and
\* not past a flat end.
InFlatBuffer(verts, p, dist) ==
    \E i \in Segs(verts) :
        /\ D2(p, NearestOnSeg(verts[i], verts[i + 1], p)) <= dist * dist
        /\ ~(i = 1 /\ Beyond(verts[1], verts[2], p))
        /\ ~(i = Len(verts) - 1 /\ Beyond(verts[Len(verts)], verts[Len(verts) - 1], p))

InLineBuffer(line, p, dist) ==
    \E k \in 1..Len(line.parts) : InFlatBuffer(line.parts[k], p, dist)

\* Clip of the statewide wells by the buffer of all cross-section lines.
ClipWells(wells, lines, dist) ==
    SelectSeq(wells, LAMBDA w :
        \E i \in 1..Len(lines) : InLineBuffer(lines[i], <<w.x, w.y>>, dist))

\* SpatialJoin JOIN_ONE_TO_MANY: one row per well and per buffer holding it.
SpatialJoin(wells, lines, dist) ==
    Concat([i \in 1..Len(wells) |->
        LET hit == SelectSeq(lines, LAMBDA l : InLineBuffer(l, <<wells[i].x, wells[i].y>>, dist))
        IN [k \in 1..Len(hit) |->
              [wellid |-> wells[i].wellid, etid |-> hit[k].et_id,
               x |-> wells[i].x, y |-> wells[i].y]]])

Unloc(name) == IF tool = "getcwi_unloc" THEN name \o "_unloc" ELSE name

wwpt_temp == IF tool = "getcwi_unloc" THEN "wwpt_unloc_temp" ELSE "wwpt_temp"

\* "if buffer_distance <= 0" of the input data QAQC.
InvalidBufferDistance(dist) == dist <= 0

\* Input data QAQC: the buffer distance, then the raster name.
CwiQAQC ==
    /\ tool \in CwiTools /\ pc = "start"
    /\ IF InvalidBufferDistance(buffer_dist)
       THEN /\ Emit(<<Msg("BufferError", 0)>>)
            /\ pc' = "exit"
       ELSE IF dem_raster # "dem"
       THEN /\ Emit(<<Msg("RasterNameError", 0)>>)
            /\ pc' = "exit"
       ELSE /\ Emit(<<>>)
            /\ pc' = "c3"
    /\ UNCHANGED <<inputs, lixData, otherData, workspace, cursor>>

\* Section 3: the buffer of the cross-section lines.
CwiBuffer ==
    /\ tool \in CwiTools /\ pc = "c3"
    /\ workspace' = workspace \cup {"xsln_buffer"}
    /\ pc' = "c4"
    /\ UNCHANGED <<inputs, lixData, otherData, messages, cursor>>

\* Section 4: clip of the statewide wells; no well in the buffer is an error.
CwiClip ==
    /\ tool \in CwiTools /\ pc = "c4"
    /\ workspace' = workspace \cup {wwpt_temp}
    /\ IF Len(ClipWells(state_wwpt, xsln_file_orig, buffer_dist)) = 0
       THEN /\ Emit(<<Msg("NoWellsError", 0)>>)
            /\ pc' = "exit"
       ELSE /\ Emit(<<>>)
            /\ pc' = "c5"
    /\ UNCHANGED <<inputs, lixData, otherData, cursor>>

\* Sections 5 to 10: the spatial join of the wells and the optional
\* stratigraphy, water level, construction and drop pipe tables.
CwiTables ==
    /\ tool \in CwiTools /\ pc = "c5"
    /\ wwpt_joined' = SpatialJoin(ClipWells(state_wwpt, xsln_file_orig, buffer_dist),
                                  xsln_file_orig, buffer_dist)
    /\ workspace' = workspace
          \cup {Unloc("wwpt"), Unloc("swl"), Unloc("cons")}
          \cup (IF tool = "getcwi" THEN {"swl_temp"} ELSE {})
          \cup (IF strat_boolean THEN {Unloc("strat")} ELSE {})
          \cup (IF strat_boolean /\ tool = "getcwi" THEN {"strat_temp", "strat_temp2"} ELSE {})
          \cup (IF dpl_boolean THEN {Unloc("dpl")} ELSE {})
    /\ pc' = "c11"
    /\ UNCHANGED <<inputs, lixData, profiles_2d, messages, cursor>>

\* GetCWIdata.py section 11: every Delete has its own try; the ones in
\* failed raise and are reported.
CwiCleanup ==
    /\ tool = "getcwi" /\ pc = "c11"
    /\ LET temps == {"wwpt_temp", "swl_temp"}
                    \cup (IF strat_boolean THEN {"strat_temp", "strat_temp2"} ELSE {})
       IN \E failed \in SUBSET temps :
            /\ workspace' = workspace \ (temps \ failed)
            /\ Emit([i \in 1..Cardinality(failed) |-> Msg("UnableToDelete", 0)])
    /\ pc' = "c12"
    /\ UNCHANGED <<inputs, lixData, otherData, cursor>>

\* GetCWIdata_unloc.py section 9.  cons_temp and cons_temp1 are names the
\* script never binds: both Delete calls raise NameError, and the handler of
\* the second formats const_temp1, bound only when the drop pipe table was
\* made, so that without it the handler itself raises.
CwiUnlocCleanup ==
    /\ tool = "getcwi_unloc" /\ pc = "c11"
    /\ \E failed \in SUBSET {"wwpt_unloc_temp", "swl_temp"} :
         LET first == IF "wwpt_unloc_temp" \in failed
                      THEN <<Msg("UnableToDelete", 0)>> ELSE <<>>
             last == IF "swl_temp" \in failed
                     THEN <<Msg("UnableToDelete", 0)>> ELSE <<>>
         IN /\ workspace' = workspace \ ({"wwpt_unloc_temp"} \ failed)
            /\ IF dpl_boolean
               THEN /\ Emit(first \o <<Msg("UnableToDelete", 0), Msg("UnableToDelete", 0)>> \o last)
                    /\ pc' = "c12"
               ELSE /\ Emit(first \o <<Msg("UnableToDelete", 0)>>)
                    /\ pc' = "crashed"
    /\ UNCHANGED <<inputs, lixData, otherData, cursor>>

\* The end message.
CwiEnd ==
    /\ tool \in CwiTools /\ pc = "c12"
    /\ Emit(<<Msg("ToolCompleted", 0)>>)
    /\ pc' = "done"
    /\ UNCHANGED <<inputs, lixData, otherData, workspace, cursor>>

NextCwi ==
    \/ CwiQAQC
    \/ CwiBuffer
    \/ CwiClip
    \/ CwiTables
    \/ CwiCleanup
    \/ CwiUnlocCleanup
    \/ CwiEnd

-----------------------------------------------------------------------------
(* All tools, over valid and invalid parameters and small inputs *)

\* A multipart cross-section line (two disjoint parts).
LineMP == [et_id |-> "A", parts |-> <<<<<<0, 0>>, <<4, 0>>>>, <<<<6, 0>>, <<8, 0>>>>>>]

XslnFiles == {<<>>, <<LineA>>, <<LineMP>>, <<LineA, LineB>>}

Well(w, e) == [wellid |-> w, etid |-> e, x |-> SiteOf(w)[1], y |-> SiteOf(w)[2]]
Strat(w, top, bot) == [wellid |-> w, elev_top |-> top, elev_bot |-> bot]

WwptFiles == {<<>>, <<Well(1, "A")>>, <<Well(1, "A"), Well(2, "B")>>,
              <<Well(NullId, "A"), Well(1, "A")>>}

StratTables == {<<>>, <<Strat(1, Some(20), Some(10))>>,
                <<Strat(1, Some(20), Some(10)), Strat(2, Some(20), NULL)>>,
                <<Strat(NullId, Some(20), Some(10)), Strat(1, Some(20), Some(10))>>}

\* Statewide wells: one near line A, one far from every line.
StateWells == {<<>>, <<[wellid |-> 1, x |-> 1, y |-> 1]>>,
               <<[wellid |-> 1, x |-> 1, y |-> 1], [wellid |-> 2, x |-> 9, y |-> 9]>>,
               <<[wellid |-> 2, x |-> 9, y |-> 9]>>}

InitLixpys ==
    /\ tool = "lixpys"
    /\ buffer_dist \in {-1, 0, 2}
    /\ vertical_exaggeration \in {-1, 0, 2}
    /\ well_stick_width = 1
    /\ xsln_file_orig \in XslnFiles
    /\ wwpt_file_orig \in WwptFiles
    /\ strat_table \in StratTables
    /\ NoRasterInputs /\ NoCwiInputs
    /\ strat_wellid_type \in {"int", "str"}
    /\ wwpt_wellid_type \in {"int", "str"}

InitRaster ==
    /\ tool = "raster"
    /\ buffer_dist = 0
    /\ vertical_exaggeration \in {-1, 0, 2}
    /\ well_stick_width = 0
    /\ xsln_etid_field \in {"et_id", "OBJECTID"}
    /\ rasters_list \in {<<"topo">>, <<"topo", "bedrock">>, <<"bed rock">>}
    /\ merge_boolean \in BOOLEAN
    /\ xsln_file_orig \in XslnFiles
    /\ wwpt_file_orig = <<>>
    /\ strat_table = <<>>
    /\ NoCwiInputs
    /\ NumericWellIds

InitCwi ==
    /\ tool \in CwiTools
    /\ buffer_dist \in {-1, 0, 2}
    /\ vertical_exaggeration = 0
    /\ well_stick_width = 0
    /\ dem_raster \in {"dem", "dem_10m"}
    /\ strat_boolean \in BOOLEAN
    /\ dpl_boolean \in BOOLEAN
    /\ state_wwpt \in StateWells
    /\ xsln_file_orig \in XslnFiles
    /\ wwpt_file_orig = <<>>
    /\ strat_table = <<>>
    /\ NoRasterInputs
    /\ NumericWellIds

Init == (InitLixpys \/ InitRaster \/ InitCwi) /\ InitState

Next == NextLixpys \/ NextRaster \/ NextCwi

Spec == Init /\ [][Next]_vars

\* Raster-profile runs with valid parameters over up to MaxLines single-part
\* cross-section lines of distinct section ids (a straight line, a vertical
\* line drawn downwards and a line with a bend) and one or two rasters, one
\* of them with a gap that the first two lines cross.  The lines carry a
\* descriptive field and a field of the no-join list.
ProfileLines ==
    { [et_id |-> "A", parts |-> <<<<<<0, 0>>, <<4, 0>>>>>>,
       mn_et_id |-> "North", Join_Count |-> 1],
      [et_id |-> "B", parts |-> <<<<<<2, 2>>, <<2, -2>>>>>>,
       mn_et_id |-> "Middle", Join_Count |-> 2],
      [et_id |-> "C", parts |-> <<<<<<0, 3>>, <<0, 1>>, <<3, 1>>>>>>,
       mn_et_id |-> "South", Join_Count |-> 1] }

InitProfiles ==
    /\ tool = "raster"
    /\ buffer_dist = 0
    /\ vertical_exaggeration \in 1..2
    /\ well_stick_width = 0
    /\ xsln_etid_field = "et_id"
    /\ rasters_list \in {<<"topo">>, <<"bedrock">>, <<"topo", "bedrock">>, <<"bedrock", "topo">>}
    /\ merge_boolean \in BOOLEAN
    /\ xsln_file_orig \in SeqsUpTo(ProfileLines, MaxLines)
    /\ xsln_file_orig # <<>>
    /\ \A i, j \in 1..Len(xsln_file_orig) :
          i # j => xsln_file_orig[i].et_id # xsln_file_orig[j].et_id
    /\ wwpt_file_orig = <<>>
    /\ strat_table = <<>>
    /\ NoCwiInputs
    /\ InitState
    /\ NumericWellIds

SpecProfiles == InitProfiles /\ [][NextRaster]_vars

\* Well-stick runs over several exaggerations and stick widths, with every
\* stratigraphy table of up to MaxIds records (one interval for each of
\* three wells and a second one for the first, in any order) and wells on
\* two cross-section lines.  A stratigraphy record has a descriptive field
\* of its own value and two fields of the list of fields not to join.
PolyStrat(w, top, bot, lith) ==
    [wellid |-> w, elev_top |-> Some(top), elev_bot |-> Some(bot),
     lith_prim |-> lith, aquifer |-> "QBAA", depth_top |-> 30 - top]

PolyStratRows ==
    { PolyStrat(1, 20, 10, "sand"), PolyStrat(1, 5, 10, "clay"),
      PolyStrat(2, 20, 10, "till"), PolyStrat(3, 20, 10, "rock") }

PolyWwptFiles ==
    { <<Well(1, "A"), Well(2, "B")>>,
      <<Well(3, "A"), Well(2, "B"), Well(1, "A")>> }

InitPolygons ==
    /\ tool = "lixpys"
    /\ buffer_dist = 2
    /\ vertical_exaggeration \in {2, 5}
    /\ well_stick_width \in 0..1
    /\ xsln_file_orig = <<LineA, LineB>>
    /\ wwpt_file_orig \in PolyWwptFiles
    /\ strat_table \in SeqsUpTo(PolyStratRows, MaxIds)
    /\ NoRasterInputs /\ NoCwiInputs
    /\ InitState
    /\ NumericWellIds

SpecPolygons == InitPolygons /\ [][NextLixpys]_vars

\* Well-stick runs over every stratigraphy table of up to MaxIds records of
\* the wells 1 to 4 and a few well point files, one of them with a section id
\* that no cross-section line has.
ReconIds == 1..4

ReconStratRows == {Strat(w, Some(20), Some(10)) : w \in ReconIds}

ReconWwptFiles ==
    { <<>>,
      <<Well(1, "A")>>,
      <<Well(2, "B"), Well(3, "B"), Well(4, "C")>>,
      <<Well(4, "A"), Well(2, "A"), Well(2, "B"), Well(3, "C")>> }

InitIds ==
    /\ tool = "lixpys"
    /\ buffer_dist = 2
    /\ vertical_exaggeration = 2
    /\ well_stick_width = 1
    /\ xsln_file_orig \in {<<LineA>>, <<LineA, LineB>>}
    /\ wwpt_file_orig \in ReconWwptFiles
    /\ strat_table \in SeqsUpTo(ReconStratRows, MaxIds)
    /\ NoRasterInputs /\ NoCwiInputs
    /\ InitState
    /\ NumericWellIds

SpecIds == InitIds /\ [][NextLixpys]_vars

-----------------------------------------------------------------------------
(* Properties *)

HasMsg(id) == \E i \in 1..Len(messages) : messages[i].id = id
MsgsOf(ids) == SelectSeq(messages, LAMBDA m : m.id \in ids)
LastMsgIn(ids) == messages # <<>> /\ messages[Len(messages)].id \in ids

FatalParameterErrors == {"BufferError", "VEError", "ReservedFieldError", "RasterNameError"}

HasMultipart == \E i \in 1..Len(xsln_file_orig) : Len(xsln_file_orig[i].parts) > 1

\* No stick, polygon, profile or joined well point exists.
NoOutputGeometry ==
    /\ polylinefile_3d = <<>>
    /\ polylinefile_2d = <<>>
    /\ polygon_file = <<>>
    /\ \A n \in DOMAIN profiles_2d : profiles_2d[n] = <<>>
    /\ wwpt_joined = <<>>

\* Nothing at all has been created or computed.
NothingDone ==
    /\ workspace = {}
    /\ xsln_temp = <<>>
    /\ wwpt_by_xs = <<>>
    /\ wwpt_merge = <<>>
    /\ profiles_2d = <<>>
    /\ NoOutputGeometry

\* C1: in the three tools that take a buffer distance, a buffer distance
\* <= 0 ends the run with the buffer error before any line is extended or
\* projected and before any output or temporary dataset exists.
C1_BufferAborts ==
    (tool \in {"lixpys", "getcwi", "getcwi_unloc"} /\ buffer_dist <= 0 /\ pc # "start")
        => (pc = "exit" /\ LastMsgIn({"BufferError"}) /\ NothingDone)

C1_Witness ==
    /\ tool = "getcwi_unloc" /\ buffer_dist = 0 /\ pc = "exit" /\ HasMsg("BufferError")

\* C2: in the well-stick and the raster-profile tool a vertical exaggeration
\* <= 0 ends the run before processing: no collection is created, no
\* coordinate is transformed.
C2_VEAborts ==
    (tool \in {"lixpys", "raster"} /\ vertical_exaggeration <= 0 /\ pc # "start")
        => (pc = "exit" /\ LastMsgIn(FatalParameterErrors) /\ NothingDone)

C2_Witness ==
    /\ tool = "raster" /\ vertical_exaggeration = 0 /\ pc = "exit" /\ LastMsgIn({"VEError"})

\* C3 as claimed: a multipart cross-section line halts the run before
\* processing, and nothing is produced from that input.
C3_MultipartHalts ==
    (tool \in {"lixpys", "raster"} /\ HasMultipart /\ pc # "start")
        => (pc = "exit" /\ xsln_temp = <<>> /\ wwpt_by_xs = <<>> /\ NoOutputGeometry)

\* C3 as amended: a multipart cross-section line is reported with an
\* error-level message before processing, but the run is not halted for it
\* (it exits only on a fatal parameter error) and the line is processed with
\* its part 0 as the reference geometry.
C3_MultipartReported ==
    (tool \in {"lixpys", "raster"} /\ HasMultipart /\ pc # "start")
        => /\ HasMsg("MultipartWarning")
           /\ pc = "exit" => LastMsgIn(FatalParameterErrors)
           /\ \A i \in 1..Len(xsln_temp) :
                 xsln_file_orig[i] = LineMP =>
                     xsln_temp[i].verts = <<<<0 - buffer_dist, 0>>, <<4 + buffer_dist, 0>>>>

C3_Witness ==
    /\ HasMultipart /\ pc = "done" /\ HasMsg("MultipartWarning")
    /\ \/ Len(polylinefile_2d) > 0
       \/ \E n \in DOMAIN profiles_2d : Len(profiles_2d[n]) > 1

\* A required input collection is empty.
EmptyInput ==
    \/ tool = "lixpys" /\ (strat_table = <<>> \/ wwpt_file_orig = <<>> \/ xsln_file_orig = <<>>)
    \/ tool = "raster" /\ xsln_file_orig = <<>>
    \/ tool \in CwiTools /\ buffer_dist > 0
          /\ ClipWells(state_wwpt, xsln_file_orig, buffer_dist) = <<>>

\* Positions up to and including the emptiness check of each tool.
BeforeEmptyCheck ==
    IF tool = "lixpys" THEN {"start", "s6"}
    ELSE IF tool = "raster" THEN {"start"}
    ELSE {"start", "c3", "c4"}

\* C4 as claimed: with an empty required input the run halts at the check,
\* before processing, and produces no output geometry.
C4_EmptyHalts ==
    EmptyInput => (pc \in BeforeEmptyCheck \cup {"exit"} /\ NoOutputGeometry)

EmptyMessage(id, rows) == rows = <<>> => HasMsg(id)

\* C4 as amended: with an empty required input the tool emits an error-level
\* message naming the empty collection at its check and no output geometry
\* is ever produced; the run itself is halted there only by the CWI tools.
C4_EmptyReported ==
    EmptyInput =>
        /\ NoOutputGeometry
        /\ (pc \notin BeforeEmptyCheck /\ ~LastMsgIn(FatalParameterErrors)) =>
              /\ tool = "lixpys" =>
                    /\ EmptyMessage("StratEmptyWarning", strat_table)
                    /\ EmptyMessage("WwptEmptyWarning", wwpt_file_orig)
                    /\ EmptyMessage("XslnEmptyWarning", xsln_file_orig)
              /\ tool = "raster" => HasMsg("XslnEmptyWarning")
              /\ tool \in CwiTools => (pc = "exit" /\ LastMsgIn({"NoWellsError"}))

C4_Witness ==
    /\ tool = "raster" /\ xsln_file_orig = <<>> /\ pc = "done"
    /\ HasMsg("XslnEmptyWarning") /\ "topo" \in DOMAIN profiles_2d

\* C9: when the well-stick tool has completed, the output workspace holds
\* the 3D stick lines, the 2D stick lines and the 2D stick polygons.
C9_OutputsKept ==
    (tool = "lixpys" /\ pc = "done" /\ ~HasMsg("DeleteWarning"))
        => {"lixpys_unloc_3d", "lixpys_unloc_2d_line", "lixpys_unloc_2d_poly"} \subseteq workspace

-----------------------------------------------------------------------------
(* Properties of the stick assembly (sections 14 to 17) *)

\* Positions from the stick loop on, and after it.
FromStickLoop == {"s17", "s19", "s20", "s21", "s22", "done"}
AfterStickLoop == {"s19", "s20", "s21", "s22", "done"}

\* Records the stick loop has been through.
Processed == IF pc \in FromStickLoop THEN 1..(cursor - 1) ELSE {}

XslnIds == {xsln_file_orig[i].et_id : i \in 1..Len(xsln_file_orig)}

\* Well points of the input that get projected: their section id is the id
\* of a cross-section line.
ProjectedWells ==
    {i \in 1..Len(wwpt_file_orig) : wwpt_file_orig[i].etid \in XslnIds}

NullRecord(oid) ==
    strat_table[oid].elev_top = <<>> \/ strat_table[oid].elev_bot = <<>>

MatchedRecord(oid) ==
    \E i \in ProjectedWells : wwpt_file_orig[i].wellid = strat_table[oid].wellid

HasStick(oid) ==
    \/ \E i \in 1..Len(polylinefile_2d) : polylinefile_2d[i].strat_oid = oid
    \/ \E i \in 1..Len(polylinefile_3d) : polylinefile_3d[i].strat_oid = oid

\* The ascending sequence of the members of a set of record numbers.
Ascending(S) == SelectSeq([i \in 1..Len(strat_table) |-> i], LAMBDA i : i \in S)

SkipIds == {"ElevTopNullSkip", "ElevBotNullSkip"}

\* The number the run reported as unmatched (0 when it reported none).
ReportedNoMatch ==
    IF HasMsg("NoMatchCount") THEN MsgsOf({"NoMatchCount"})[1].arg ELSE 0

\* C5 as claimed: at the end of a well-stick run the records without a
\* stick are all covered by the reported per-run counts.
C5_AllCounted ==
    (tool = "lixpys" /\ pc = "done")
        => Cardinality({oid \in 1..Len(strat_table) : ~HasStick(oid)}) = ReportedNoMatch

\* C5 as amended: at the end of a well-stick run every record without a
\* stick was either reported by its own skip message (null elevation) or is
\* one of the records of the reported unmatched count, and every well point
\* that was never projected has its section id in the reported list of
\* section ids without a cross-section line.
C5_AllReported ==
    (tool = "lixpys" /\ pc = "done")
        => /\ Cardinality({oid \in 1..Len(strat_table) :
                  /\ ~HasStick(oid)
                  /\ ~\E i \in 1..Len(messages) :
                        messages[i].id \in SkipIds /\ messages[i].arg = oid})
                = ReportedNoMatch
           /\ Len(MsgsOf({"NoMatchCount"})) <= 1
           /\ \A i \in 1..Len(wwpt_file_orig) :
                 i \notin ProjectedWells =>
                    \E k \in 1..Len(messages) :
                       /\ messages[k].id = "WellEtidNoXsln"
                       /\ wwpt_file_orig[i].etid \in Range(messages[k].arg)

C5_Witness ==
    /\ tool = "lixpys" /\ pc = "done"
    /\ \E oid \in 1..Len(strat_table) : NullRecord(oid)
    /\ \E oid \in 1..Len(strat_table) : ~NullRecord(oid) /\ ~MatchedRecord(oid)
    /\ \E i \in 1..Len(wwpt_file_orig) : i \notin ProjectedWells

\* Every record with both elevations has a projected well point.
AllValidMatched ==
    \A oid \in 1..Len(strat_table) : NullRecord(oid) \/ MatchedRecord(oid)

NullRecords == {oid \in 1..Len(strat_table) : NullRecord(oid)}

\* C6 as claimed: with k null-elevation records among otherwise valid and
\* matched ones, n sticks are emitted and the skipped records are reported
\* once per run, as one count k.
C6_SkippedCount ==
    (tool = "lixpys" /\ pc = "done" /\ AllValidMatched /\ NullRecords # {})
        => /\ Len(polylinefile_2d) = Len(strat_table) - Cardinality(NullRecords)
           /\ Len(MsgsOf(SkipIds)) = 1
           /\ MsgsOf(SkipIds)[1].arg = Cardinality(NullRecords)

\* C6 as amended: with k null-elevation records among otherwise valid and
\* matched ones, exactly n 3D and n 2D sticks are emitted, and the skipped
\* records are reported one message per record (k messages, each naming its
\* record), with no aggregated count.
C6_SkippedEach ==
    (tool = "lixpys" /\ pc \in AfterStickLoop /\ AllValidMatched)
        => /\ Len(polylinefile_2d) = Len(strat_table) - Cardinality(NullRecords)
           /\ Len(polylinefile_3d) = Len(strat_table) - Cardinality(NullRecords)
           /\ Column(MsgsOf(SkipIds), LAMBDA m : m.arg) = Ascending(NullRecords)
           /\ nomatch_list = <<>>

C6_Witness ==
    /\ tool = "lixpys" /\ pc = "done" /\ AllValidMatched
    /\ Cardinality(NullRecords) = 1 /\ Len(polylinefile_2d) = 1
    /\ \E oid \in NullRecords : strat_table[oid].elev_bot = <<>>

Unmatched == {oid \in Processed : ~MatchedRecord(oid)}

\* C7 as claimed: every record whose well id matches no projected well
\* point has no stick and one entry in the unmatched list, whose size is
\* reported once after the loop.
C7_UnmatchedListed ==
    tool = "lixpys"
        => /\ \A oid \in Unmatched : ~HasStick(oid)
           /\ Len(nomatch_list) = Cardinality(Unmatched)
           /\ (pc \in AfterStickLoop /\ Unmatched # {}) =>
                 /\ Len(MsgsOf({"NoMatchCount"})) = 1
                 /\ ReportedNoMatch = Cardinality(Unmatched)

\* C7 as amended: every record with both elevations whose well id matches no
\* projected well point has no stick and one entry (its well id, in record
\* order) in the unmatched list, and the size of the list is reported once
\* after the loop, which the run reaches.  A record with a null elevation is skipped
\* before the lookup and never enters the list.
C7_ValidUnmatchedListed ==
    tool = "lixpys"
        => /\ \A oid \in Unmatched : ~HasStick(oid)
           /\ pc \in FromStickLoop =>
                 nomatch_list =
                    Column(Ascending({oid \in Unmatched : ~NullRecord(oid)}),
                           LAMBDA oid : strat_table[oid].wellid)
           /\ pc \in AfterStickLoop =>
                 /\ Len(MsgsOf({"NoMatchCount"})) = (IF nomatch_list = <<>> THEN 0 ELSE 1)
                 /\ ReportedNoMatch = Len(nomatch_list)

C7_Witness ==
    /\ tool = "lixpys" /\ pc = "done"
    /\ Len(nomatch_list) = 2 /\ ReportedNoMatch = 2

\* The stick pair expected of record oid from well point row w on line l.
StickFrom(row3d, row2d, oid, w, l) ==
    LET top == strat_table[oid].elev_top[1]
        bot == strat_table[oid].elev_bot[1]
        extended == ExtendLine(l.parts[1], buffer_dist)
        measure == measureOnLine(extended, <<w.x, w.y>>) - buffer_dist
        x2d == row2d.shape[1][1]
    IN /\ row3d.shape = <<<<w.x, w.y, top>>, <<w.x, w.y, bot>>>>
       /\ row2d.shape = <<<<x2d, top>>, <<x2d, bot>>>>
       /\ x2d[1] * (3048 * vertical_exaggeration) = (measure * 10000) * x2d[2]
       /\ x2d[2] # 0

\* C8: the sticks are exactly one 3D and one 2D segment, tagged with the
\* record's id, for every processed record with both elevations and a
\* projected well point, in record order: the 3D one from (x, y, elevTop) to
\* (x, y, elevBot) of that well, the 2D one from (xDrawing, elevTop) to
\* (xDrawing, elevBot) with xDrawing = measure / 0.3048 / VE of that well on
\* its extended line; the two collections always have the same size.
C8_OneStickPair ==
    tool = "lixpys"
        => /\ Len(polylinefile_3d) = Len(polylinefile_2d)
           /\ Column(polylinefile_2d, LAMBDA r : r.strat_oid)
                = Ascending({oid \in Processed : ~NullRecord(oid) /\ MatchedRecord(oid)})
           /\ \A i \in 1..Len(polylinefile_2d) :
                 /\ polylinefile_3d[i].strat_oid = polylinefile_2d[i].strat_oid
                 /\ \E k \in ProjectedWells : \E j \in 1..Len(xsln_file_orig) :
                       /\ wwpt_file_orig[k].wellid
                            = strat_table[polylinefile_2d[i].strat_oid].wellid
                       /\ xsln_file_orig[j].et_id = wwpt_file_orig[k].etid
                       /\ StickFrom(polylinefile_3d[i], polylinefile_2d[i],
                                    polylinefile_2d[i].strat_oid,
                                    wwpt_file_orig[k], xsln_file_orig[j])

C8_Witness ==
    /\ tool = "lixpys" /\ pc = "s17" /\ cursor = 3
    /\ Len(polylinefile_2d) = 2
    /\ polylinefile_2d[1].wellid # polylinefile_2d[2].wellid

-----------------------------------------------------------------------------
(* Properties of the measure (section 14) *)

\* q lies on the axis-parallel segment a-b.
OnSeg(a, b, q) ==
    \/ a[2] = b[2] /\ q[2] = a[2] /\ Min2(a[1], b[1]) <= q[1] /\ q[1] <= Max2(a[1], b[1])
    \/ a[1] = b[1] /\ q[1] = a[1] /\ Min2(a[2], b[2]) <= q[2] /\ q[2] <= Max2(a[2], b[2])

\* The whole-number points of a line.
PointsOf(verts) ==
    LET xs == {verts[i][1] : i \in 1..Len(verts)}
        ys == {verts[i][2] : i \in 1..Len(verts)}
    IN {q \in (SetMin(xs)..(0 - SetMin({0 - x : x \in xs})))
                \X (SetMin(ys)..(0 - SetMin({0 - y : y \in ys}))) :
            \E i \in Segs(verts) : OnSeg(verts[i], verts[i + 1], q)}

\* A distance along the line from its first vertex at which q lies.
IsAlong(verts, q, m) ==
    \E i \in Segs(verts) :
        /\ OnSeg(verts[i], verts[i + 1], q)
        /\ m = CumLen(verts, i) + SegLen(verts[i], q)

\* The point d units behind the start of the line, on the reverse bearing of
\* its first segment.
Behind(verts, d) ==
    <<verts[1][1] + d * Sgn(verts[1][1] - verts[2][1]),
      verts[1][2] + d * Sgn(verts[1][2] - verts[2][2])>>

\* C10: the measure of every projected well plus the buffer distance is the
\* distance along the extended line from its first vertex to a point of that
\* line nearest to the well; a well on the original start vertex has measure
\* 0, and a well d units (0 < d < buffer distance) behind the start on the
\* start segment's reverse bearing has measure -d.
C10_Measure ==
    tool = "lixpys" =>
        \A e \in DOMAIN wwpt_by_xs : \A i \in 1..Len(wwpt_by_xs[e]) :
            LET row == wwpt_by_xs[e][i]
                site == <<row.x, row.y>>
                near == <<row.NEAR_X, row.NEAR_Y>>
            IN \E j \in 1..Len(xsln_file_orig) :
                 /\ xsln_file_orig[j].et_id = row.etid
                 /\ LET orig == xsln_file_orig[j].parts[1]
                        extended == xsln_temp[j].verts
                    IN /\ near \in PointsOf(extended)
                       /\ \A q \in PointsOf(extended) : D2(site, near) <= D2(site, q)
                       /\ IsAlong(extended, near, row.OnLine_DIST + buffer_dist)
                       /\ site = orig[1] => row.OnLine_DIST = 0
                       /\ \A d \in 1..(buffer_dist - 1) :
                             site = Behind(orig, d) => row.OnLine_DIST = 0 - d

C10_Witness ==
    /\ tool = "lixpys" /\ pc = "done" /\ buffer_dist = 2
    /\ Len(xsln_file_orig[1].parts[1]) = 4
    /\ "A" \in DOMAIN wwpt_by_xs
    /\ Len(wwpt_by_xs["A"]) = 1
    /\ <<wwpt_by_xs["A"][1].x, wwpt_by_xs["A"][1].y>> = Behind(xsln_file_orig[1].parts[1], 1)
    /\ wwpt_by_xs["A"][1].OnLine_DIST = 0 - 1

-----------------------------------------------------------------------------
(* Properties of the extension (section 13) and of the projection on it *)

\* q lies on the first or on the last segment of the line.
OnEndSegment(verts, q) ==
    \/ OnSeg(verts[1], verts[2], q)
    \/ OnSeg(verts[Len(verts) - 1], verts[Len(verts)], q)

\* C11: a well whose nearest point of the original cross-section line is not
\* on its first or last segment gets, from the near analysis on the extended
\* line, a nearest point (NEAR_X, NEAR_Y) that is a nearest point of the
\* original line.
C11_InteriorSame ==
    tool = "lixpys" =>
        \A e \in DOMAIN wwpt_by_xs : \A i \in 1..Len(wwpt_by_xs[e]) :
            LET row == wwpt_by_xs[e][i]
                site == <<row.x, row.y>>
            IN \A j \in 1..Len(xsln_file_orig) :
                 LET orig == xsln_file_orig[j].parts[1]
                 IN (/\ xsln_file_orig[j].et_id = row.etid
                     /\ \A q \in NearLocations(orig, site) : ~OnEndSegment(orig, q))
                        => <<row.NEAR_X, row.NEAR_Y>> \in NearLocations(orig, site)

\* Position of the projection of a site on a straight line a-b extended by
\* dist at both ends: the signed distance from a along the direction of the
\* line, kept within the extended line.
StraightPos(a, b, site, dist) ==
    LET s == (site[1] - a[1]) * Sgn(b[1] - a[1]) + (site[2] - a[2]) * Sgn(b[2] - a[2])
    IN Clamp(s, 0 - dist, SegLen(a, b) + dist)

\* C12: on a straight cross-section line, of any two wells the one that
\* projects further along the line (the start and end extensions included)
\* has the strictly greater measure; so three wells at increasing positions
\* have strictly increasing measures.
C12_Monotone ==
    (tool = "lixpys" /\ Len(xsln_file_orig) = 1 /\ Len(xsln_file_orig[1].parts[1]) = 2)
        => \A e \in DOMAIN wwpt_by_xs : \A i, j \in 1..Len(wwpt_by_xs[e]) :
              LET a == xsln_file_orig[1].parts[1][1]
                  b == xsln_file_orig[1].parts[1][2]
                  ri == wwpt_by_xs[e][i]
                  rj == wwpt_by_xs[e][j]
              IN StraightPos(a, b, <<ri.x, ri.y>>, buffer_dist)
                    < StraightPos(a, b, <<rj.x, rj.y>>, buffer_dist)
                 => ri.OnLine_DIST < rj.OnLine_DIST

C12_Witness ==
    /\ tool = "lixpys" /\ pc = "done" /\ "A" \in DOMAIN wwpt_by_xs
    /\ Len(wwpt_by_xs["A"]) = 3
    /\ wwpt_by_xs["A"][1].OnLine_DIST < 0
    /\ wwpt_by_xs["A"][1].OnLine_DIST < wwpt_by_xs["A"][2].OnLine_DIST
    /\ wwpt_by_xs["A"][2].OnLine_DIST < wwpt_by_xs["A"][3].OnLine_DIST
    /\ wwpt_by_xs["A"][3].OnLine_DIST > 4

-----------------------------------------------------------------------------
(* Properties of the drawing transform *)

\* x is the drawing coordinate of a measure: (measure / 0.3048) / ve.
IsDrawingX(x, measure, ve) ==
    /\ x[2] # 0
    /\ x[1] * (3048 * ve) = (measure * 10000) * x[2]

\* C13: every 2D stick runs from (xDrawing, elevTop) to (xDrawing, elevBot)
\* and every vertex of a 2D raster profile is (xDrawing, z), where xDrawing is
\* (measure / 0.3048) / vertical exaggeration of the measure of the well or of
\* the profile vertex on its cross-section line, and the elevations are those
\* of the stratigraphy record or of the raster, unchanged.  The vertices of a
\* profile are consecutive sampled points of a part of the line.
C13_Transform ==
    /\ \A i \in 1..Len(polylinefile_2d) :
          LET row == polylinefile_2d[i]
              rec == strat_table[row.strat_oid]
          IN /\ row.shape[1][2] = rec.elev_top[1]
             /\ row.shape[2][2] = rec.elev_bot[1]
             /\ row.shape[1][1] = row.shape[2][1]
             /\ \E k \in 1..Len(wwpt_merge) :
                   /\ wwpt_merge[k].wellid = row.wellid
                   /\ wwpt_merge[k].etid = row.et_id
                   /\ IsDrawingX(row.shape[1][1], wwpt_merge[k].OnLine_DIST,
                                 vertical_exaggeration)
    /\ \A n \in DOMAIN profiles_2d : \A i \in 1..Len(profiles_2d[n]) :
          LET row == profiles_2d[n][i]
          IN \E l \in 1..Len(xsln_file_orig) :
               \E k \in 1..Len(xsln_file_orig[l].parts) :
                  LET part == DensePts(xsln_file_orig[l].parts[k])
                  IN /\ xsln_file_orig[l].et_id = row.et_id
                     /\ \E o \in 0..(Len(part) - Len(row.shape)) :
                          \A j \in 1..Len(row.shape) :
                             /\ row.shape[j][2] = RasterZ(row.raster_name, part[o + j])
                             /\ IsDrawingX(row.shape[j][1],
                                           measureOnLine(xsln_file_orig[l].parts[1],
                                                         part[o + j]),
                                           vertical_exaggeration)

C13_Witness ==
    /\ tool = "lixpys" /\ pc = "done"
    /\ Len(polylinefile_2d) > 0
    /\ polylinefile_2d[1].shape[1][1][1] > 0
    /\ polylinefile_2d[1].shape[1][2] # polylinefile_2d[1].shape[2][2]

\* C14: on the line (0,0)-(1000,0) with buffer distance 500 and vertical
\* exaggeration 50, the well at (1000, 50) gets measure 1000 and offset 50,
\* and each of its sticks gets xDrawing = (1000 / 0.3048) / 50, which lies
\* between 65.61 and 65.62, distance 50 and pct_dist = 50 / 500 * 200 = 20.
C14_Scenario ==
    /\ \A e \in DOMAIN wwpt_by_xs : \A i \in 1..Len(wwpt_by_xs[e]) :
          (wwpt_by_xs[e][i].x = 1000 /\ wwpt_by_xs[e][i].y = 50)
             => /\ wwpt_by_xs[e][i].OnLine_DIST = 1000
                /\ wwpt_by_xs[e][i].NEAR_DIST = 50
    /\ \A i \in 1..Len(polylinefile_2d) :
          (polylinefile_2d[i].x_coord = 1000 /\ polylinefile_2d[i].y_coord = 50)
             => LET x == Reduce(polylinefile_2d[i].shape[1][1])
                IN /\ x = Reduce(<<1000 * 10000, 3048 * 50>>)
                   /\ 6561 * x[2] < 100 * x[1] /\ 100 * x[1] < 6562 * x[2]
                   /\ polylinefile_2d[i].distance = 50
                   /\ Reduce(polylinefile_2d[i].pct_dist) = <<20, 1>>

C14_Witness ==
    /\ tool = "lixpys" /\ pc = "done"
    /\ \E i \in 1..Len(polylinefile_2d) : polylinefile_2d[i].wellid = 1
    /\ \E i \in 1..Len(wwpt_merge) : wwpt_merge[i].OnLine_DIST = 1000

-----------------------------------------------------------------------------
(* Properties of the id checks (section 7) *)

\* The id checks have run (to their end or to the exception of line 219).
IdChecksDone == tool = "lixpys" /\ pc \notin {"start", "exit", "s6", "s7"}
IdChecksEnded == IdChecksDone \/ (tool = "lixpys" /\ pc = "crashed")

StratWellIds == {strat_table[i].wellid : i \in 1..Len(strat_table)}
WwptWellIds == {wwpt_file_orig[i].wellid : i \in 1..Len(wwpt_file_orig)}
WwptEtids == {wwpt_file_orig[i].etid : i \in 1..Len(wwpt_file_orig)}

\* The messages of the id checks that print the identifiers themselves.
IdListMessages == {"WellEtidNoXsln", "XslnNoWell"}

\* The identifiers the messages with this id have reported.
ReportedIds(id) ==
    IF id \in IdListMessages
    THEN UNION {Range(m.arg) : m \in Range(MsgsOf({id}))}
    ELSE {}

\* A non-empty difference is reported with its identifiers.
ReportsIds(id, difference) ==
    difference # {} => (HasMsg(id) /\ ReportedIds(id) = difference)

\* C15 as claimed: each of the four differences that is not empty is
\* reported with its identifiers.
C15_DifferencesListed ==
    IdChecksEnded =>
        /\ ReportsIds("StratNoWell", StratWellIds \ WwptWellIds)
        /\ ReportsIds("WellNoStrat", WwptWellIds \ StratWellIds)
        /\ ReportsIds("WellEtidNoXsln", WwptEtids \ XslnIds)
        /\ ReportsIds("XslnNoWell", XslnIds \ WwptEtids)

\* The difference is reported, once and only when it is not empty, by its
\* size.
ReportsCount(id, difference) ==
    /\ Len(MsgsOf({id})) = (IF difference = {} THEN 0 ELSE 1)
    /\ difference # {} => MsgsOf({id})[1].arg = Cardinality(difference)

\* The difference is reported, once and only when it is not empty, by the
\* list of its members, each once.
ReportsList(id, difference) ==
    /\ Len(MsgsOf({id})) = (IF difference = {} THEN 0 ELSE 1)
    /\ difference # {} =>
          /\ Range(MsgsOf({id})[1].arg) = difference
          /\ Len(MsgsOf({id})[1].arg) = Cardinality(difference)

\* C15 as amended: the four differences over the distinct ids are computed
\* and each is reported once, only when it is not empty: the two well id
\* differences by their size alone, the two section id differences by the
\* list of their members; for stratigraphy ids {1,2,3} and well point ids
\* {2,3,4} the reports are the counts 1 and 1.
C15_DifferencesReported ==
    IdChecksEnded =>
        /\ ReportsCount("StratNoWell", StratWellIds \ WwptWellIds)
        /\ ReportsCount("WellNoStrat", WwptWellIds \ StratWellIds)
        /\ ReportsList("WellEtidNoXsln", WwptEtids \ XslnIds)
        /\ ReportsList("XslnNoWell", XslnIds \ WwptEtids)
        /\ (StratWellIds = {1, 2, 3} /\ WwptWellIds = {2, 3, 4}) =>
              /\ MsgsOf({"StratNoWell"})[1].arg = 1
              /\ MsgsOf({"WellNoStrat"})[1].arg = 1

C15_Witness ==
    /\ IdChecksDone /\ pc = "done"
    /\ StratWellIds = {1, 2, 3} /\ WwptWellIds = {2, 3, 4}
    /\ HasMsg("StratNoWell") /\ HasMsg("WellNoStrat")
    /\ HasMsg("WellEtidNoXsln") /\ HasMsg("XslnNoWell")

\* C16: whatever the ids of the stratigraphy table, the well points and the
\* cross-section lines, the id checks complete and the run goes on to the
\* next stage (the creation of the output files).
C16_NeverHalts == [][LixIdChecks => pc' = "s9"]_vars

-----------------------------------------------------------------------------
(* Properties of the merge (section 16) and of the well lookup (section 17) *)

\* The rows of wwpt_unloc_merge of the well of a stick.
RowsOfWell(wellid) ==
    {k \in 1..Len(wwpt_merge) : wwpt_merge[k].wellid = wellid}

\* C17: the sticks do not depend on the order in which the per-section well
\* point files are concatenated.  Every order of the sections is a possible
\* order of the merge, so any row of a stick's well may be the last one the
\* lookup reads: each stick carries the section id, the drawing coordinate,
\* the distance and the pct_dist of every row of its well.
C17_OrderIndependent ==
    \A i \in 1..Len(polylinefile_2d) :
        \A k \in RowsOfWell(polylinefile_2d[i].wellid) :
            /\ polylinefile_2d[i].et_id = wwpt_merge[k].etid
            /\ polylinefile_3d[i].et_id = wwpt_merge[k].etid
            /\ polylinefile_2d[i].distance = wwpt_merge[k].NEAR_DIST
            /\ IsDrawingX(polylinefile_2d[i].shape[1][1], wwpt_merge[k].OnLine_DIST,
                          vertical_exaggeration)

\* C18: every extended line has as many vertices as the part 0 of the line it
\* was made from and the same section id; its vertices other than the first
\* and the last are those of the original, in order, and its first and last
\* vertex are new ones; the extended lines are rows of xsln_temp, and no step
\* changes the cross-section lines of the input.
C18_ExtendedDerived ==
    /\ [](tool = "lixpys" =>
            /\ Len(xsln_temp) <= Len(xsln_file_orig)
            /\ \A j \in 1..Len(xsln_temp) :
                  LET orig == xsln_file_orig[j].parts[1]
                      extended == xsln_temp[j].verts
                      n == Len(orig)
                  IN /\ xsln_temp[j].et_id = xsln_file_orig[j].et_id
                     /\ Len(extended) = n
                     /\ \A i \in 2..(n - 1) : extended[i] = orig[i]
                     /\ extended[1] # orig[1]
                     /\ extended[n] # orig[n])
    /\ [][xsln_file_orig' = xsln_file_orig]_vars

C18_Witness ==
    /\ tool = "lixpys" /\ pc = "s14"
    /\ Len(xsln_temp) = 1 /\ Len(xsln_temp[1].verts) = 6
    /\ xsln_temp[1].verts[3] = xsln_file_orig[1].parts[1][3]
    /\ "xsln_temp" \in workspace

\* p lies on the ray from a through b, dist beyond b.
BeyondOnRay(a, b, p, dist) ==
    /\ (p[1] - b[1]) * (b[2] - a[2]) = (p[2] - b[2]) * (b[1] - a[1])
    /\ D2(p, b) = dist * dist
    /\ D2(p, a) = (SegLen(a, b) + dist) * (SegLen(a, b) + dist)

\* Length of a line, segment by segment.
RECURSIVE PathLength(_)
PathLength(verts) ==
    IF Len(verts) < 2 THEN 0
    ELSE ISqrt(D2(verts[1], verts[2])) + PathLength(Tail(verts))

\* C19: the first vertex of an extended line lies on the ray from vertex[1]
\* through vertex[0] of the original, the buffer distance beyond vertex[0];
\* its last vertex lies on the ray from vertex[n-2] through vertex[n-1], the
\* buffer distance beyond vertex[n-1]; its length is the length of the
\* original plus twice the buffer distance.
C19_EndsBeyond ==
    tool = "lixpys" =>
        \A j \in 1..Len(xsln_temp) :
            LET orig == xsln_file_orig[j].parts[1]
                extended == xsln_temp[j].verts
                n == Len(orig)
            IN /\ BeyondOnRay(orig[2], orig[1], extended[1], buffer_dist)
               /\ BeyondOnRay(orig[n - 1], orig[n], extended[Len(extended)], buffer_dist)
               /\ PathLength(extended) = PathLength(orig) + 2 * buffer_dist

C19_Witness ==
    /\ tool = "lixpys" /\ pc = "done" /\ buffer_dist = 2
    /\ xsln_file_orig[1].parts[1] = <<<<4, 0>>, <<0, 0>>>>
    /\ xsln_temp[1].verts = <<<<6, 0>>, <<-2, 0>>>>

\* C20: when the id checks have completed, the type-mismatch warning has been
\* emitted exactly when the well id field of the stratigraphy table and the
\* well id field of the well point file differ in type, whatever the order
\* of the records and whichever of them hold a null well id.
C20_TypeWarning ==
    (tool = "lixpys" /\ pc = "s9")
        => (HasMsg("TypeMismatchWarning") <=> strat_wellid_type # wwpt_wellid_type)

\* Well points whose section id is the id of no cross-section line.
SectionlessWells == (1..Len(wwpt_file_orig)) \ ProjectedWells

\* Rows of the per-section files and of their merge.
ProjectedRows ==
    Range(wwpt_merge) \cup UNION {Range(wwpt_by_xs[e]) : e \in DOMAIN wwpt_by_xs}

\* The section id is in the list of the warning on well point section ids.
SectionIdListed(etid) ==
    \E k \in 1..Len(messages) :
        /\ messages[k].id = "WellEtidNoXsln"
        /\ etid \in Range(messages[k].arg)

RecordsOf(wellid) == {oid \in 1..Len(strat_table) : strat_table[oid].wellid = wellid}

NoMatchEntries(wellid) == {k \in 1..Len(nomatch_list) : nomatch_list[k] = wellid}

RastersDone == IF tool = "raster" /\ pc \in {"r6", "done"} THEN 1..(cursor - 1) ELSE {}

\* Distance along a line from its first vertex to a point of the line, by
\* counting the unit steps up to the point.
ArcPos(verts, p) ==
    (CHOOSE k \in 1..Len(DensePts(verts)) : DensePts(verts)[k] = <<p[1], p[2]>>) - 1

\* The 2D profiles written for one raster and one section id, in order.
Written2d(name, et_id) ==
    SelectSeq(profiles_2d[Profiles2dName(name)],
              LAMBDA r : r.et_id = et_id /\ r.raster_name = name)

RowsOfRaster(rows, name) == SelectSeq(rows, LAMBDA r : r.raster_name = name)

\* s is an initial part of t.
IsPrefix(s, t) == Len(s) <= Len(t) /\ SubSeq(t, 1, Len(s)) = s

\* The profiles of a collection: geometry, section id and raster name.
ProfilesOf(rows) ==
    [i \in 1..Len(rows) |-> <<rows[i].shape, rows[i].et_id, rows[i].raster_name>>]

\* C23: with the merge option the profiles of all rasters and all lines are
\* in the one merged collection, every record tagged with the name of its
\* raster, and processing a raster only adds to what is there; without the
\* option every raster has its own collection, which holds the profiles of
\* that raster and no other.
C23_MergeAccumulates ==
    /\ [](tool = "raster" =>
            /\ merge_boolean =>
                 /\ DOMAIN profiles_2d \subseteq {merged_profiles_2d_name}
                 /\ \A q \in RastersDone :
                       /\ Len(RowsOfRaster(profiles_2d[merged_profiles_2d_name], rasters_list[q]))
                             = Len(Profiles3d(rasters_list[q]))
                       /\ Len(Profiles3d(rasters_list[q])) >= Len(xsln_file_orig)
                 /\ \A n \in DOMAIN profiles_2d : \A i \in 1..Len(profiles_2d[n]) :
                       \E q \in RastersDone : profiles_2d[n][i].raster_name = rasters_list[q]
            /\ ~merge_boolean =>
                 /\ DOMAIN profiles_2d = {rasters_list[q] : q \in RastersDone}
                 /\ \A q \in RastersDone :
                       /\ Len(profiles_2d[rasters_list[q]]) = Len(Profiles3d(rasters_list[q]))
                       /\ RowsOfRaster(profiles_2d[rasters_list[q]], rasters_list[q])
                             = profiles_2d[rasters_list[q]])
    /\ [][tool = "raster" =>
            \A n \in DOMAIN profiles_2d :
                /\ n \in DOMAIN profiles_2d'
                /\ IsPrefix(ProfilesOf(profiles_2d[n]), ProfilesOf(profiles_2d'[n]))]_vars

C23_Witness ==
    /\ tool = "raster" /\ pc = "done" /\ merge_boolean
    /\ Len(rasters_list) = 2 /\ Len(xsln_file_orig) = 2
    /\ DOMAIN profiles_2d = {merged_profiles_2d_name}
    /\ Len(RowsOfRaster(profiles_2d[merged_profiles_2d_name], "topo")) = 2
    /\ Len(RowsOfRaster(profiles_2d[merged_profiles_2d_name], "bedrock")) = 4

\* The cross-section line of a section id.
LineOf(et_id) ==
    xsln_file_orig[CHOOSE l \in 1..Len(xsln_file_orig) : xsln_file_orig[l].et_id = et_id]

\* The row carries its section id and the name of one of the rasters.
Tagged(row) ==
    /\ row.et_id \in XslnIds
    /\ row.raster_name \in Range(rasters_list)

\* The row carries every joined field of its cross-section line.
CarriesLineFields(row) ==
    \A f \in xsln_field_names :
        f \in DOMAIN row /\ row[f] = Some(LineOf(row.et_id)[f])

\* C24 as claimed: every 2D profile of the final output carries its section
\* id, its raster name and the joined fields of its cross-section line (all
\* line fields but the ones of the no-join list), with and without the
\* merge option.
C24_JoinedAttributes ==
    (tool = "raster" /\ pc = "done") =>
        \A n \in DOMAIN profiles_2d : \A i \in 1..Len(profiles_2d[n]) :
            Tagged(profiles_2d[n][i]) /\ CarriesLineFields(profiles_2d[n][i])

\* C24 as amended: every 2D profile of the final output carries its section
\* id and its raster name; without the merge option it also carries exactly
\* the joined fields of its cross-section line (all line fields but the ones
\* of the no-join list); with the merge option the joined fields have been
\* deleted again and it carries the geometry, the section id and the raster
\* name only.
C24_AttributesPerMode ==
    (tool = "raster" /\ pc = "done") =>
        \A n \in DOMAIN profiles_2d : \A i \in 1..Len(profiles_2d[n]) :
            LET row == profiles_2d[n][i]
            IN /\ Tagged(row)
               /\ ~merge_boolean =>
                     /\ CarriesLineFields(row)
                     /\ DOMAIN row = {"shape", "et_id", "raster_name"} \cup xsln_field_names
                     /\ DOMAIN row \cap (fields_no_join \ {"et_id"}) = {}
               /\ merge_boolean => DOMAIN row = {"shape", "et_id", "raster_name"}

C24_Witness ==
    /\ tool = "raster" /\ pc = "done" /\ merge_boolean
    /\ Len(rasters_list) = 2
    /\ xsln_field_names = {"mn_et_id"}
    /\ \E n \in DOMAIN profiles_2d :
          /\ Len(profiles_2d[n]) > 2
          /\ \A i \in 1..Len(profiles_2d[n]) : "mn_et_id" \notin DOMAIN profiles_2d[n][i]

AfterPolygons == {"s21", "s22", "done"}

\* The polygons made from one 2D stick.
PolygonsOf(stick) ==
    {k \in 1..Len(polygon_file) : polygon_file[k].strat_oid = stick.strat_oid}

\* C25: each 2D stick has exactly one polygon; the polygon reaches
\* w = 130 / vertical exaggeration + stick width to either side of the stick
\* and ends flat with the stick (its top and bottom are the stick's), and
\* every polygon of the run has the same w.
C25_FlatBuffer ==
    (tool = "lixpys" /\ pc \in AfterPolygons) =>
        /\ Len(polygon_file) = Len(polylinefile_2d)
        /\ \A i \in 1..Len(polylinefile_2d) :
              LET stick == polylinefile_2d[i]
                  x == stick.shape[1][1]
              IN /\ Cardinality(PolygonsOf(stick)) = 1
                 /\ \A k \in PolygonsOf(stick) :
                       LET poly == polygon_file[k].shape
                           xs == {poly[c][1] : c \in 1..Len(poly)}
                           zs == {poly[c][2] : c \in 1..Len(poly)}
                       IN /\ Cardinality(xs) = 2
                          /\ \E lo, hi \in xs :
                                /\ FracEq(FracSub(x, lo), FracSub(hi, x))
                                /\ FracEq(FracSub(hi, x),
                                          Frac(StickWidthNum + well_stick_width * vertical_exaggeration,
                                               vertical_exaggeration))
                          /\ zs = {stick.z_top, stick.z_bot}
        /\ \A k, m \in 1..Len(polygon_file) :
              polygon_file[k].BUFF_DIST = polygon_file[m].BUFF_DIST

C25_Witness ==
    /\ tool = "lixpys" /\ pc = "done"
    /\ vertical_exaggeration = 5 /\ well_stick_width = 1
    /\ Len(polygon_file) = 3
    /\ \E k \in 1..Len(polygon_file) :
          /\ polygon_file[k].shape[1][2] = 5
          /\ polygon_file[k].shape[2][2] = 10
          /\ FracEq(polygon_file[k].BUFF_DIST, Frac(27, 1))

\* What identifies a 2D stick and the polygon made from it: the well id, the
\* record number and the stick's line.
StickKeys == [i \in 1..Len(polylinefile_2d) |->
                 <<polylinefile_2d[i].wellid, polylinefile_2d[i].strat_oid,
                   polylinefile_2d[i].shape>>]
PolygonKeys == [k \in 1..Len(polygon_file) |->
                   <<polygon_file[k].wellid, polygon_file[k].strat_oid,
                     polygon_file[k].line>>]

Occurrences(seq, v) == Cardinality({i \in 1..Len(seq) : seq[i] = v})

\* C26: the final polygon collection holds the buffered stick polygons, each
\* of them once and nothing else, in non-decreasing order of well id,
\* whatever the order in which the sticks were created.
C26_SortedPermutation ==
    (tool = "lixpys" /\ pc \in AfterPolygons) =>
        /\ Len(polygon_file) = Len(polylinefile_2d)
        /\ \A v \in Range(StickKeys) \cup Range(PolygonKeys) :
              Occurrences(PolygonKeys, v) = Occurrences(StickKeys, v)
        /\ \A k, m \in 1..Len(polygon_file) :
              k < m => polygon_file[k].wellid <= polygon_file[m].wellid

C26_Witness ==
    /\ tool = "lixpys" /\ pc = "done"
    /\ Len(polylinefile_2d) = 3
    /\ polylinefile_2d[1].wellid > polylinefile_2d[2].wellid
    /\ polylinefile_2d[2].wellid > polylinefile_2d[3].wellid
    /\ polygon_file[1].strat_oid = 3 /\ polygon_file[3].strat_oid = 1

AfterJoin == {"s20", "s21", "s22", "done"}

\* The fields the sticks are created with (sections 9, 10 and 17).
polyline_3d_fields == {"shape", "wellid", "et_id", "x_coord", "y_coord", "z_top", "z_bot", "strat_oid"}
polyline_2d_fields == polyline_3d_fields \cup {"distance", "pct_dist"}

\* The row has the joined fields and values of the stratigraphy record its
\* strat_oid names: every field of the table that is not on the list of
\* fields not to join, and no other.
JoinedFromRecord(row, created) ==
    /\ DOMAIN row \ created = DOMAIN strat_table[row.strat_oid] \ fields_not_to_join
    /\ (DOMAIN row \ created) \cap fields_not_to_join = {}
    /\ \A f \in DOMAIN row \ created : row[f] = Some(strat_table[row.strat_oid][f])

\* C27: the stratigraphy fields joined to the 3D and the 2D sticks are the
\* fields of the stratigraphy table less the fixed exclusion list (no field
\* of the list is joined, every other one is), and every stick gets the
\* values of the record whose object id is the stick's strat_oid.
C27_JoinedStratFields ==
    (tool = "lixpys" /\ pc \in AfterJoin) =>
        /\ \A i \in 1..Len(polylinefile_3d) : JoinedFromRecord(polylinefile_3d[i], polyline_3d_fields)
        /\ \A i \in 1..Len(polylinefile_2d) : JoinedFromRecord(polylinefile_2d[i], polyline_2d_fields)

C27_Witness ==
    /\ tool = "lixpys" /\ pc = "done"
    /\ Len(polylinefile_2d) = 2 /\ Len(strat_table) = 3
    /\ polylinefile_2d[1].lith_prim = <<"clay">>
    /\ polylinefile_2d[2].lith_prim = <<"sand">>
    /\ polylinefile_3d[2].lith_prim = <<"sand">>
    /\ polylinefile_2d[2].strat_oid = 3
    /\ "aquifer" \notin DOMAIN polylinefile_2d[1]

\* The stick's drawing x, distance and pct_dist are the ones of a well point
\* of the stick's well and section id projected on the extended line of the
\* cross-section line with that section id.
FromOwnSection(stick, x, with2d) ==
    \E l \in 1..Len(xsln_file_orig) : \E i \in 1..Len(wwpt_file_orig) :
        LET line == xsln_file_orig[l]
            w == wwpt_file_orig[i]
            ext == ExtendLine(line.parts[1], buffer_dist)
            site == <<w.x, w.y>>
        IN /\ line.et_id = stick.et_id
           /\ w.etid = stick.et_id /\ w.wellid = stick.wellid
           /\ stick.x_coord = w.x /\ stick.y_coord = w.y
           /\ with2d =>
                 /\ \E near \in NearLocations(ext, site) :
                       FracEq(x, Frac((measureOnLine(ext, near) - buffer_dist) * FootDen,
                                      FootNum * vertical_exaggeration))
                 /\ stick.distance * stick.distance = NearD2(ext, site)
                 /\ FracEq(stick.pct_dist, Frac(stick.distance * 200, buffer_dist))

\* C28: every 3D and 2D stick carries the section id of the very
\* cross-section line whose extended line gave the measure and the offset
\* behind its drawing x, distance and pct_dist; the 3D and the 2D stick of a
\* record carry the same section id.
C28_OwnSection ==
    tool = "lixpys" =>
        /\ \A k \in 1..Len(polylinefile_2d) :
              /\ FromOwnSection(polylinefile_2d[k], polylinefile_2d[k].shape[1][1], TRUE)
              /\ polylinefile_2d[k].shape[2][1] = polylinefile_2d[k].shape[1][1]
        /\ \A k \in 1..Len(polylinefile_3d) :
              /\ FromOwnSection(polylinefile_3d[k], <<0, 1>>, FALSE)
              /\ k <= Len(polylinefile_2d)
              /\ polylinefile_2d[k].et_id = polylinefile_3d[k].et_id
              /\ polylinefile_2d[k].strat_oid = polylinefile_3d[k].strat_oid

\* Well 2 has a point in both sections (measure 4, offset 1 on line A;
\* measure 1, offset 2 on line B) and its stick is drawn in section B.
C28_Witness ==
    /\ tool = "lixpys" /\ pc = "done"
    /\ Len(xsln_file_orig) = 2
    /\ \E i, j \in 1..Len(wwpt_file_orig) :
          /\ wwpt_file_orig[i].wellid = 2 /\ wwpt_file_orig[i].etid = "A"
          /\ wwpt_file_orig[j].wellid = 2 /\ wwpt_file_orig[j].etid = "B"
    /\ \E k \in 1..Len(polylinefile_2d) :
          /\ polylinefile_2d[k].wellid = 2 /\ polylinefile_2d[k].et_id = "B"
          /\ polylinefile_2d[k].distance = 2
          /\ FracEq(polylinefile_2d[k].shape[1][1], Frac(FootDen, FootNum * 2))

\* Positions in the merged well points of the points of a well.
MergedPointsOf(wellid) == {m \in 1..Len(wwpt_merge) : wwpt_merge[m].wellid = wellid}

SetMax(S) == CHOOSE m \in S : \A n \in S : n <= m

Sticks2dOf(oid) == {k \in 1..Len(polylinefile_2d) : polylinefile_2d[k].strat_oid = oid}
Sticks3dOf(oid) == {k \in 1..Len(polylinefile_3d) : polylinefile_3d[k].strat_oid = oid}

\* C29: a processed record (both elevations given) whose well id has one or
\* several projected well points gets exactly one 3D and one 2D stick, built
\* from the coordinates, measure, offset and section id of the last of these
\* points in the order of the merged collection, and so no stick in any other
\* cross-section.
C29_LastMatchOnly ==
    (tool = "lixpys" /\ pc \in FromStickLoop) =>
        \A oid \in Processed :
            (~NullRecord(oid) /\ MergedPointsOf(strat_table[oid].wellid) # {}) =>
                LET well == wwpt_merge[SetMax(MergedPointsOf(strat_table[oid].wellid))]
                IN /\ Cardinality(Sticks2dOf(oid)) = 1
                   /\ Cardinality(Sticks3dOf(oid)) = 1
                   /\ \A k \in Sticks2dOf(oid) :
                         LET stick == polylinefile_2d[k]
                         IN /\ stick.et_id = well.etid
                            /\ stick.x_coord = well.x /\ stick.y_coord = well.y
                            /\ stick.distance = well.NEAR_DIST
                            /\ FracEq(stick.shape[1][1],
                                      Frac(well.OnLine_DIST * FootDen,
                                           FootNum * vertical_exaggeration))
                   /\ \A k \in Sticks3dOf(oid) :
                         LET stick == polylinefile_3d[k]
                         IN /\ stick.et_id = well.etid
                            /\ stick.shape[1][1] = well.x /\ stick.shape[1][2] = well.y

\* Well 2 is projected on both lines, line B being merged before line A: the
\* one stick of its record is the one of section A.
C29_Witness ==
    /\ tool = "lixpys" /\ pc = "done"
    /\ Len(wwpt_merge) = 2
    /\ wwpt_merge[1].wellid = 2 /\ wwpt_merge[1].etid = "B"
    /\ wwpt_merge[2].wellid = 2 /\ wwpt_merge[2].etid = "A"
    /\ Len(strat_table) = 1 /\ strat_table[1].wellid = 2
    /\ Len(polylinefile_2d) = 1 /\ Len(polylinefile_3d) = 1
    /\ polylinefile_2d[1].et_id = "A" /\ polylinefile_2d[1].distance = 1

\* C30: in the Get Unlocated CWI Data tool, whatever the stratigraphy and the
\* drop pipe options, a run that has passed the wells-in-buffer check goes
\* through the cleanup to the end message: the cleanup step always hands on
\* to the end message, and a dataset that cannot be deleted only draws a
\* message.
C30_CleanupCompletes ==
    [][(tool = "getcwi_unloc" /\ pc = "c11") => pc' = "c12"]_vars

====
